---------------------------- MODULE Spec2Model ----------------------------
(***************************************************************************)
(* A model of llm-pr-review-analyzer: the retry executor, the LLM response *)
(* parser, the per-category / overall insight analysis, the commit-group   *)
(* views of AnalysisResult and the report-writing step of the CLI.         *)
(*                                                                         *)
(* Text is modelled as a sequence of tokens.  A token stands for a         *)
(* concrete piece of text: "FENCE" is the three-backtick fence marker,     *)
(* "json" the word that follows it in a json fence, "NL" a newline,        *)
(* "SP" a blank, "prose" a word that is not JSON,                          *)
(* "{" "}" "[" "]" the JSON brackets, "1" a number                         *)
(* literal, "k:<name>" the object key "<name>": (with the comma that       *)
(* separates it from a preceding member) and "s:<text>" the string literal *)
(* "<text>".                                                               *)
(***************************************************************************)
EXTENDS Integers, Sequences, FiniteSets, TLC

(***************************************************************************)
(* Python values.  Every value is a record tagged with its Python type.    *)
(* A str holds its text as a sequence of tokens; a dict holds a function   *)
(* from key names to values.                                               *)
(***************************************************************************)
PyNone == [t |-> "none"]

PyInt(n) == [t |-> "int", n |-> n]

PyStr(text) == [t |-> "str", s |-> text]

PyList(elems) == [t |-> "list", elems |-> elems]

PyDict(m) == [t |-> "dict", m |-> m]

EmptyMap == [k \in {} |-> PyNone]

\* isinstance(v, dict)
IsDict(v) == v.t = "dict"

\* key in d, for a dict d
HasKey(d, key) == key \in DOMAIN d.m

\* d.get(key, default)
DictGet(d, key, default) == IF key \in DOMAIN d.m THEN d.m[key] ELSE default

\* Python truthiness, as in 'if v:'
Truthy(v) ==
    CASE v.t = "none" -> FALSE
      [] v.t = "int"  -> v.n # 0
      [] v.t = "str"  -> Len(v.s) > 0
      [] v.t = "list" -> Len(v.elems) > 0
      [] v.t = "dict" -> DOMAIN v.m # {}

(***************************************************************************)
(* Tokens of the text model.                                               *)
(***************************************************************************)
Fence == "FENCE"

JsonWord == "json"

Newline == "NL"

Blank == "SP"

Whitespace == {Newline, Blank}

KeyName ==
    ("k:description" :> "description") @@
    ("k:severity" :> "severity") @@
    ("k:reviewer_insights" :> "reviewer_insights") @@
    ("k:actionable_guidance" :> "actionable_guidance") @@
    ("k:learning_opportunities" :> "learning_opportunities") @@
    ("k:immediate_actions" :> "immediate_actions") @@
    ("k:reviewer_responses" :> "reviewer_responses") @@
    ("k:frequency" :> "frequency") @@
    ("k:category" :> "category")

KeyTokens == DOMAIN KeyName

StrText ==
    ("s:high" :> "high") @@
    ("s:HIGH" :> "HIGH") @@
    ("s:low" :> "low") @@
    ("s:critical" :> "critical") @@
    ("s:text" :> "text")

StrTokens == DOMAIN StrText

NumTokens == {"1"}

\* The double quote that opens and closes a string literal written out
\* piece by piece: the pieces between two quotes are the text of the string.
Quote == "QUOTE"

(***************************************************************************)
(* str.strip(), str.find, str.rfind on token sequences.                    *)
(***************************************************************************)
RECURSIVE LStrip(_)
LStrip(s) ==
    IF s # <<>> /\ Head(s) \in Whitespace THEN LStrip(Tail(s)) ELSE s

RECURSIVE RStrip(_)
RStrip(s) ==
    IF s # <<>> /\ s[Len(s)] \in Whitespace
    THEN RStrip(SubSeq(s, 1, Len(s) - 1))
    ELSE s

\* str.strip()
Strip(s) == RStrip(LStrip(s))

\* The positions (1-based) of token tok in s at or after position from.
Positions(s, tok, from) == {i \in from..Len(s) : s[i] = tok}

SetMin(S) == CHOOSE x \in S : \A y \in S : x <= y

SetMax(S) == CHOOSE x \in S : \A y \in S : x >= y

\* s.find(tok, from): the first position, 0 when there is none (Python: -1)
Find(s, tok, from) ==
    IF Positions(s, tok, from) = {} THEN 0 ELSE SetMin(Positions(s, tok, from))

\* s.rfind(tok): the last position, 0 when there is none (Python: -1)
RFind(s, tok) ==
    IF Positions(s, tok, 1) = {} THEN 0 ELSE SetMax(Positions(s, tok, 1))

(***************************************************************************)
(* json.loads.  Whitespace between tokens is insignificant; the text must  *)
(* be exactly one JSON value.  A failure is a json.JSONDecodeError.        *)
(***************************************************************************)
RECURSIVE DropWsOutside(_, _)
DropWsOutside(s, in_string) ==
    IF s = <<>> THEN <<>>
    ELSE IF Head(s) = Quote
         THEN <<Head(s)>> \o DropWsOutside(Tail(s), ~in_string)
    ELSE IF Head(s) \in Whitespace /\ ~in_string
         THEN DropWsOutside(Tail(s), in_string)
    ELSE <<Head(s)>> \o DropWsOutside(Tail(s), in_string)

\* The text without the whitespace between its tokens; the whitespace
\* inside a string literal stays.
DropWs(s) == DropWsOutside(s, FALSE)

DecodeFail == [ok |-> FALSE, end |-> 0, val |-> PyNone]

RECURSIVE ParseValue(_, _)
RECURSIVE ParseMembers(_, _, _)
RECURSIVE ParseElems(_, _, _)

\* One JSON value starting at position i of s; end is the position after it.
ParseValue(s, i) ==
    IF i > Len(s) THEN DecodeFail
    ELSE IF s[i] = "{" THEN ParseMembers(s, i + 1, EmptyMap)
    ELSE IF s[i] = "[" THEN ParseElems(s, i + 1, <<>>)
    ELSE IF s[i] \in NumTokens THEN [ok |-> TRUE, end |-> i + 1, val |-> PyInt(1)]
    ELSE IF s[i] \in StrTokens
         THEN [ok |-> TRUE, end |-> i + 1, val |-> PyStr(<<StrText[s[i]]>>)]
    ELSE IF s[i] = "null" THEN [ok |-> TRUE, end |-> i + 1, val |-> PyNone]
    ELSE IF s[i] = Quote
         THEN LET closing == Find(s, Quote, i + 1)
              IN  IF closing = 0 THEN DecodeFail
                  ELSE [ok |-> TRUE, end |-> closing + 1,
                        val |-> PyStr(SubSeq(s, i + 1, closing - 1))]
    ELSE DecodeFail

\* The members of an object up to its closing brace; a repeated key keeps
\* the last value, as a Python dict does.
ParseMembers(s, i, acc) ==
    IF i > Len(s) THEN DecodeFail
    ELSE IF s[i] = "}" THEN [ok |-> TRUE, end |-> i + 1, val |-> PyDict(acc)]
    ELSE IF s[i] \in KeyTokens
         THEN LET r == ParseValue(s, i + 1)
              IN  IF r.ok
                  THEN ParseMembers(s, r.end, (KeyName[s[i]] :> r.val) @@ acc)
                  ELSE DecodeFail
    ELSE DecodeFail

\* The elements of an array up to its closing bracket.
ParseElems(s, i, acc) ==
    IF i > Len(s) THEN DecodeFail
    ELSE IF s[i] = "]" THEN [ok |-> TRUE, end |-> i + 1, val |-> PyList(acc)]
    ELSE LET r == ParseValue(s, i)
         IN  IF r.ok THEN ParseElems(s, r.end, Append(acc, r.val))
             ELSE DecodeFail

\* json.loads(text): [ok |-> TRUE, val |-> value] or a decode error
JsonLoads(text) ==
    LET s == DropWs(text)
        r == ParseValue(s, 1)
    IN  IF r.ok /\ r.end = Len(s) + 1
        THEN [ok |-> TRUE, val |-> r.val]
        ELSE [ok |-> FALSE, val |-> PyNone]

(***************************************************************************)
(* ResponseParser (analysis_helpers/response_parser.py).                   *)
(***************************************************************************)
\* Python None passed where the response text is expected.
NoneText == <<"None">>

\* response[:500] keeps at most this many leading pieces of the text.
FallbackPreviewLen == 500

Prefix(s, n) == SubSeq(s, 1, IF Len(s) < n THEN Len(s) ELSE n)

\* A fallback of two keys, its severity medium.
create_short_fallback(error_message) ==
    PyDict(("description" :> PyStr(error_message)) @@
           ("severity" :> PyStr(<<"medium">>)))

\* ResponseParser._create_fallback_response(error_message)
create_fallback_response(error_message) ==
    PyDict(
        ("description" :> PyStr(error_message)) @@
        ("severity" :> PyStr(<<"low">>)) @@
        ("knowledge_category" :> PyStr(<<"other">>)) @@
        ("reviewer_insights" :> PyDict(
            ("technical_knowledge" :> PyStr(<<"Response parsing failed">>)) @@
            ("experience_lessons" :> PyStr(<<"Review LLM output format">>)) @@
            ("design_philosophy" :> PyStr(<<"Ensure proper JSON formatting">>)))) @@
        ("actionable_guidance" :> PyDict(
            "immediate_actions" :> PyList(<<
                PyStr(<<"Check the LLM output format">>),
                PyStr(<<"Review response manually">>)>>))) @@
        ("reviewer_responses" :> PyList(<<>>)))

\* The position of the first json fence marker (FENCE directly followed by
\* the word json), 0 when the text has none.
JsonFencePos(r) ==
    LET P == {i \in 1..(Len(r) - 1) : r[i] = Fence /\ r[i + 1] = JsonWord}
    IN  IF P = {} THEN 0 ELSE SetMin(P)

\* response.split("\n")
RECURSIVE SplitLines(_, _)
SplitLines(s, cur) ==
    IF s = <<>> THEN <<cur>>
    ELSE IF Head(s) = Newline THEN <<cur>> \o SplitLines(Tail(s), <<>>)
    ELSE SplitLines(Tail(s), Append(cur, Head(s)))

\* "\n".join(lines)
RECURSIVE JoinLines(_)
JoinLines(lines) ==
    IF lines = <<>> THEN <<>>
    ELSE IF Len(lines) = 1 THEN lines[1]
    ELSE lines[1] \o <<Newline>> \o JoinLines(Tail(lines))

\* The loop over the lines of a generic code block: the lines between the
\* first line that is exactly a fence and the next such line.
RECURSIVE CodeBlockLines(_, _, _)
CodeBlockLines(lines, in_code_block, json_lines) ==
    IF lines = <<>> THEN json_lines
    ELSE IF Strip(Head(lines)) = <<Fence>> /\ ~in_code_block
         THEN CodeBlockLines(Tail(lines), TRUE, json_lines)
    ELSE IF Strip(Head(lines)) = <<Fence>> /\ in_code_block
         THEN json_lines
    ELSE IF in_code_block
         THEN CodeBlockLines(Tail(lines), TRUE, Append(json_lines, Head(lines)))
    ELSE CodeBlockLines(Tail(lines), in_code_block, json_lines)

\* Lines 83-94: the substring from the first "{" to the last "}", else the
\* whole text; a decode error gives the fallback built from response[:500].
ParseBracesOrWhole(r) ==
    LET start == Find(r, "{", 1)
        end == RFind(r, "}")
        json_str == IF start > 0 /\ end > start THEN SubSeq(r, start, end) ELSE r
        d == JsonLoads(json_str)
    IN  IF d.ok THEN d.val
        ELSE create_fallback_response(Prefix(r, FallbackPreviewLen))

\* ResponseParser.parse_llm_response(response)
parse_llm_response(response) ==
    IF response = NoneText \/ response = <<>> \/ Strip(response) = <<>>
    THEN create_fallback_response(<<"Empty response from LLM">>)
    ELSE
    LET r == Strip(response)
        jpos == JsonFencePos(r)
        start_idx == jpos + 2
        end_idx == Find(r, Fence, start_idx)
        json_lines == CodeBlockLines(SplitLines(r, <<>>), FALSE, <<>>)
        block == JsonLoads(Strip(JoinLines(json_lines)))
    IN  IF jpos > 0
        THEN IF end_idx > start_idx
             THEN LET d == JsonLoads(Strip(SubSeq(r, start_idx, end_idx - 1)))
                  IN  IF d.ok THEN d.val
                      ELSE create_fallback_response(Prefix(r, FallbackPreviewLen))
             ELSE ParseBracesOrWhole(r)
        ELSE IF Positions(r, Fence, 1) # {}
        THEN IF json_lines # <<>> /\ block.ok
             THEN block.val
             ELSE ParseBracesOrWhole(r)
        ELSE ParseBracesOrWhole(r)

\* The result is the fallback mapping (of some error message).
IsFallback(v) ==
    /\ IsDict(v)
    /\ HasKey(v, "description")
    /\ v.m["description"].t = "str"
    /\ v = create_fallback_response(v.m["description"].s)

(***************************************************************************)
(* The enumerations and ReviewInsight (models/analysis_result.py).         *)
(***************************************************************************)
ReviewCategory ==
    {"architecture", "code_style", "performance", "security", "testing",
     "documentation", "naming", "error_handling", "maintainability",
     "business_logic", "api_design", "data_handling", "user_experience",
     "other"}

Severity == {"high", "medium", "low"}

\* ReviewCategory(v) / Severity(v) succeed only for the str of a member.
IsMember(v, enum) == v.t = "str" /\ Len(v.s) = 1 /\ v.s[1] \in enum

\* str.lower() on the text of a str
Lower(text) == [i \in DOMAIN text |-> IF text[i] = "HIGH" THEN "high" ELSE text[i]]

\* The values Python can iterate over (list, str, dict), as a sequence.
IsIterable(v) == v.t \in {"list", "str", "dict"}

RECURSIVE SetToSeq(_)
SetToSeq(S) ==
    IF S = {} THEN <<>>
    ELSE LET x == CHOOSE y \in S : TRUE IN <<x>> \o SetToSeq(S \ {x})

Iterate(v) ==
    CASE v.t = "list" -> v.elems
      [] v.t = "str"  -> [i \in DOMAIN v.s |-> PyStr(<<v.s[i]>>)]
      [] v.t = "dict" -> [i \in DOMAIN SetToSeq(DOMAIN v.m) |->
                             PyStr(<<SetToSeq(DOMAIN v.m)[i]>>)]

\* A raised exception in place of a value.
Raised == [ok |-> FALSE]

Returned(v) == [ok |-> TRUE, val |-> v]

\* <x>_data.get("immediate_actions", []) for x under key of data, as the
\* argument of immediate_actions.extend(...): [ok, val |-> sequence]
ActionsUnder(data, key) ==
    IF ~HasKey(data, key) THEN Returned(<<>>)
    ELSE LET sub == data.m[key]
         IN  IF ~IsDict(sub) THEN Raised
             ELSE LET acts == DictGet(sub, "immediate_actions", PyList(<<>>))
                  IN  IF IsIterable(acts) THEN Returned(Iterate(acts))
                      ELSE Raised

\* ReviewerResponse(...) built from one element of data["reviewer_responses"]
ReviewerResponseOf(resp_data) ==
    [reviewer |-> DictGet(resp_data, "reviewer", PyStr(<<>>)),
     response |-> DictGet(resp_data, "response", PyStr(<<>>)),
     copilot_instruction |-> DictGet(resp_data, "copilot_instruction", PyStr(<<>>)),
     commit_group |-> DictGet(resp_data, "commit_group", PyNone),
     suggested_commit_message |-> DictGet(resp_data, "suggested_commit_message", PyNone),
     original_comment |-> DictGet(resp_data, "original_comment", PyNone)]

\* The loop over data["reviewer_responses"]: [ok, val |-> sequence]
ResponsesOf(data) ==
    IF ~HasKey(data, "reviewer_responses") THEN Returned(<<>>)
    ELSE LET rr == data.m["reviewer_responses"]
         IN  IF ~IsIterable(rr) THEN Raised
             ELSE IF \E i \in DOMAIN Iterate(rr) : ~IsDict(Iterate(rr)[i])
                  THEN Raised
             ELSE Returned([i \in DOMAIN Iterate(rr) |->
                               ReviewerResponseOf(Iterate(rr)[i])])

\* ReviewerKnowledgeInsight(...) built from data["reviewer_insights"]
ReviewerKnowledgeInsightOf(ri_data) ==
    [t |-> "ReviewerKnowledgeInsight",
     technical_knowledge |-> DictGet(ri_data, "technical_knowledge", PyStr(<<>>)),
     experience_lessons |-> DictGet(ri_data, "experience_lessons", PyStr(<<>>)),
     design_philosophy |-> DictGet(ri_data, "design_philosophy", PyStr(<<>>)),
     best_practices |-> DictGet(ri_data, "best_practices", PyList(<<>>)),
     common_pitfalls |-> DictGet(ri_data, "common_pitfalls", PyList(<<>>))]

\* ReviewInsight.from_llm_response(data): [ok, val |-> insight], ok = FALSE
\* when the construction raises.
from_llm_response(data) ==
    IF ~IsDict(data)
    THEN Returned(
           [category |-> "other",
            description |-> PyStr(<<"Failed to parse LLM response - received non-dict data">>),
            frequency |-> PyInt(1),
            severity |-> "low",
            examples |-> PyList(<<>>),
            reviewers_mentioned |-> PyList(<<>>),
            reviewer_insights |-> PyNone,
            immediate_actions |-> <<PyStr(<<"Review LLM response format">>)>>,
            reviewer_responses |-> <<>>])
    ELSE
    LET category == DictGet(data, "category", PyStr(<<"other">>))
        severity == DictGet(data, "severity", PyStr(<<"medium">>))
        lo == ActionsUnder(data, "learning_opportunities")
        ag == ActionsUnder(data, "actionable_guidance")
        rr == ResponsesOf(data)
    IN  IF \/ ~IsMember(category, ReviewCategory)
           \/ ~IsMember(severity, Severity)
           \/ (HasKey(data, "reviewer_insights") /\ ~IsDict(data.m["reviewer_insights"]))
           \/ ~lo.ok \/ ~ag.ok \/ ~rr.ok
        THEN Raised
        ELSE Returned(
           [category |-> category.s[1],
            description |-> DictGet(data, "description", PyStr(<<>>)),
            frequency |-> DictGet(data, "frequency", PyInt(1)),
            severity |-> severity.s[1],
            examples |-> DictGet(data, "examples", PyList(<<>>)),
            reviewers_mentioned |-> DictGet(data, "reviewers_mentioned", PyList(<<>>)),
            reviewer_insights |->
                IF HasKey(data, "reviewer_insights")
                THEN ReviewerKnowledgeInsightOf(data.m["reviewer_insights"])
                ELSE PyNone,
            immediate_actions |-> lo.val \o ag.val,
            reviewer_responses |-> rr.val])

(***************************************************************************)
(* Prepared data (comment_preparer.py) and the reviewer filters            *)
(* (utils/chain_utils.py).  A grouping (a Python dict of lists) is a       *)
(* sequence of buckets in insertion order.  A comment given to the         *)
(* preparer is [author, content, file_path, is_bot], its content a         *)
(* sequence of characters, the blank being Blank and the line break        *)
(* Newline.  A comment of an analysis run is [author, content, kw]: kw is  *)
(* the set of categories whose keyword list has a hit in the content.      *)
(***************************************************************************)
UpperCase ==
    <<"A", "B", "C", "D", "E", "F", "G", "H", "I", "J", "K", "L", "M", "N", "O", "P", "Q", "R", "S", "T", "U", "V", "W", "X", "Y", "Z">>

LowerCase ==
    <<"a", "b", "c", "d", "e", "f", "g", "h", "i", "j", "k", "l", "m", "n", "o", "p", "q", "r", "s", "t", "u", "v", "w", "x", "y", "z">>

\* The text as it is, without lowering.
content_as_is(content) == content

\* str.lower() on a text, character by character
content_lower(content) ==
    [i \in DOMAIN content |->
        IF \E k \in DOMAIN UpperCase : UpperCase[k] = content[i]
        THEN LowerCase[CHOOSE k \in DOMAIN UpperCase : UpperCase[k] = content[i]]
        ELSE content[i]]

\* keyword in content_lower: the keyword is a substring of the text
IsSubstring(keyword, text) ==
    \E i \in 1..(Len(text) - Len(keyword) + 1) :
        SubSeq(text, i, i + Len(keyword) - 1) = keyword

\* CommentPreparer._load_category_keywords: the keyword list of a category
CategoryKeywords ==
    ("architecture" :> <<
        <<"a", "r", "c", "h", "i", "t", "e", "c", "t", "u", "r", "e">>,
        <<"d", "e", "s", "i", "g", "n">>,
        <<"s", "t", "r", "u", "c", "t", "u", "r", "e">>,
        <<"p", "a", "t", "t", "e", "r", "n">>,
        <<"r", "e", "f", "a", "c", "t", "o", "r">>,
        <<"c", "o", "u", "p", "l", "i", "n", "g">>,
        <<"c", "o", "h", "e", "s", "i", "o", "n">>,
        <<"s", "e", "p", "a", "r", "a", "t", "i", "o", "n">>,
        <<"a", "b", "s", "t", "r", "a", "c", "t", "i", "o", "n">>,
        <<"i", "n", "t", "e", "r", "f", "a", "c", "e">>>>) @@
    ("code_style" :> <<
        <<"s", "t", "y", "l", "e">>,
        <<"f", "o", "r", "m", "a", "t", "t", "i", "n", "g">>,
        <<"c", "o", "n", "v", "e", "n", "t", "i", "o", "n">>,
        <<"n", "a", "m", "i", "n", "g">>,
        <<"i", "n", "d", "e", "n", "t", "a", "t", "i", "o", "n">>,
        <<"s", "p", "a", "c", "i", "n", "g">>,
        <<"l", "i", "n", "e", Blank, "l", "e", "n", "g", "t", "h">>,
        <<"r", "e", "a", "d", "a", "b", "i", "l", "i", "t", "y">>,
        <<"c", "l", "e", "a", "n", Blank, "c", "o", "d", "e">>>>) @@
    ("performance" :> <<
        <<"p", "e", "r", "f", "o", "r", "m", "a", "n", "c", "e">>,
        <<"s", "p", "e", "e", "d">>,
        <<"s", "l", "o", "w">>,
        <<"o", "p", "t", "i", "m", "i", "z", "a", "t", "i", "o", "n">>,
        <<"e", "f", "f", "i", "c", "i", "e", "n", "t">>,
        <<"m", "e", "m", "o", "r", "y">>,
        <<"c", "p", "u">>,
        <<"b", "o", "t", "t", "l", "e", "n", "e", "c", "k">>,
        <<"c", "a", "c", "h", "e">>,
        <<"a", "l", "g", "o", "r", "i", "t", "h", "m">>>>) @@
    ("security" :> <<
        <<"s", "e", "c", "u", "r", "i", "t", "y">>,
        <<"v", "u", "l", "n", "e", "r", "a", "b", "i", "l", "i", "t", "y">>,
        <<"e", "x", "p", "l", "o", "i", "t">>,
        <<"a", "u", "t", "h", "e", "n", "t", "i", "c", "a", "t", "i", "o", "n">>,
        <<"a", "u", "t", "h", "o", "r", "i", "z", "a", "t", "i", "o", "n">>,
        <<"s", "a", "n", "i", "t", "i", "z", "e">>,
        <<"v", "a", "l", "i", "d", "a", "t", "i", "o", "n">>,
        <<"i", "n", "j", "e", "c", "t", "i", "o", "n">>,
        <<"x", "s", "s">>>>) @@
    ("testing" :> <<
        <<"t", "e", "s", "t">>,
        <<"t", "e", "s", "t", "i", "n", "g">>,
        <<"u", "n", "i", "t", Blank, "t", "e", "s", "t">>,
        <<"i", "n", "t", "e", "g", "r", "a", "t", "i", "o", "n">>,
        <<"c", "o", "v", "e", "r", "a", "g", "e">>,
        <<"m", "o", "c", "k">>,
        <<"a", "s", "s", "e", "r", "t", "i", "o", "n">>,
        <<"t", "e", "s", "t", "c", "a", "s", "e">>,
        <<"p", "y", "t", "e", "s", "t">>,
        <<"u", "n", "i", "t", "t", "e", "s", "t">>>>) @@
    ("documentation" :> <<
        <<"d", "o", "c", "u", "m", "e", "n", "t", "a", "t", "i", "o", "n">>,
        <<"c", "o", "m", "m", "e", "n", "t">>,
        <<"d", "o", "c", "s", "t", "r", "i", "n", "g">>,
        <<"r", "e", "a", "d", "m", "e">>,
        <<"d", "o", "c", "s">>,
        <<"e", "x", "p", "l", "a", "i", "n">>,
        <<"c", "l", "a", "r", "i", "f", "y">>,
        <<"d", "e", "s", "c", "r", "i", "p", "t", "i", "o", "n">>,
        <<"e", "x", "a", "m", "p", "l", "e">>>>) @@
    ("naming" :> <<
        <<"n", "a", "m", "i", "n", "g">>,
        <<"v", "a", "r", "i", "a", "b", "l", "e", Blank, "n", "a", "m", "e">>,
        <<"f", "u", "n", "c", "t", "i", "o", "n", Blank, "n", "a", "m", "e">>,
        <<"c", "l", "a", "s", "s", Blank, "n", "a", "m", "e">>,
        <<"d", "e", "s", "c", "r", "i", "p", "t", "i", "v", "e">>,
        <<"m", "e", "a", "n", "i", "n", "g", "f", "u", "l">>,
        <<"c", "o", "n", "f", "u", "s", "i", "n", "g", Blank, "n", "a", "m", "e">>,
        <<"r", "e", "n", "a", "m", "e">>>>) @@
    ("error_handling" :> <<
        <<"e", "r", "r", "o", "r">>,
        <<"e", "x", "c", "e", "p", "t", "i", "o", "n">>,
        <<"t", "r", "y">>,
        <<"c", "a", "t", "c", "h">>,
        <<"f", "i", "n", "a", "l", "l", "y">>,
        <<"h", "a", "n", "d", "l", "i", "n", "g">>,
        <<"e", "r", "r", "o", "r", Blank, "h", "a", "n", "d", "l", "i", "n", "g">>,
        <<"e", "x", "c", "e", "p", "t", "i", "o", "n", Blank, "h", "a", "n", "d", "l", "i", "n", "g">>,
        <<"g", "r", "a", "c", "e", "f", "u", "l">>>>) @@
    ("maintainability" :> <<
        <<"m", "a", "i", "n", "t", "a", "i", "n", "a", "b", "l", "e">>,
        <<"m", "a", "i", "n", "t", "e", "n", "a", "n", "c", "e">>,
        <<"r", "e", "a", "d", "a", "b", "l", "e">>,
        <<"c", "o", "m", "p", "l", "e", "x", "i", "t", "y">>,
        <<"s", "i", "m", "p", "l", "e">>,
        <<"c", "o", "m", "p", "l", "i", "c", "a", "t", "e", "d">>,
        <<"u", "n", "d", "e", "r", "s", "t", "a", "n", "d">>,
        <<"c", "l", "e", "a", "r">>>>)

\* The keyword list of the category has a hit in the lowered text (the inner
\* loop of _detect_categories, which stops at the first hit).
has_keyword(category, text) ==
    \E k \in DOMAIN CategoryKeywords[category] :
        IsSubstring(CategoryKeywords[category][k], text)

\* The suffix "[bot]" alone marks a bot.
ends_with_square_bot(author) == author # <<>> /\ author[Len(author)] = "[bot]"

\* self.author.endswith("[bot]") or self.author.endswith("-bot"): an author
\* is a sequence of pieces of a login, the last being the suffix.
ends_with_bot(author) ==
    author # <<>> /\ author[Len(author)] \in {"[bot]", "-bot"}

\* ReviewComment.__post_init__: the value of is_bot after construction
post_init(author, is_bot) == IF ends_with_bot(author) THEN TRUE ELSE is_bot

\* ReviewComment(author, content, file_path) with the default is_bot = False
ReviewComment(author, content, file_path) ==
    [author |-> author, content |-> content, file_path |-> file_path,
     is_bot |-> post_init(author, FALSE)]

\* The length test on the text as given, blanks included.
long_enough_untrimmed(content, min_comment_length) ==
    ~(Len(content) < min_comment_length)

\* Line 76, negated: len(comment.content.strip()) < self.min_comment_length
long_enough(content, min_comment_length) ==
    ~(Len(Strip(content)) < min_comment_length)

\* The patterns of _is_non_substantive that are a phrase with an optional
\* final dot: lgtm, looks good to me, approved, good, nice, +1.
PhrasePatterns ==
    {<<"l", "g", "t", "m">>,
     <<"l", "o", "o", "k", "s", Blank, "g", "o", "o", "d", Blank, "t", "o", Blank, "m", "e">>,
     <<"a", "p", "p", "r", "o", "v", "e", "d">>,
     <<"g", "o", "o", "d">>,
     <<"n", "i", "c", "e">>,
     <<"+", "1">>}

\* The emoji of the patterns that are one emoji repeated: thumbs up, check
\* mark; each is one character of the text.
EmojiPatterns == {"THUMBS_UP", "CHECK_MARK"}

\* re.match of one of the patterns on the text
matches_pattern(text) ==
    \/ text \in PhrasePatterns
    \/ /\ text # <<>>
       /\ text[Len(text)] = "."
       /\ SubSeq(text, 1, Len(text) - 1) \in PhrasePatterns
    \/ /\ text # <<>>
       /\ \E e \in EmojiPatterns : \A i \in DOMAIN text : text[i] = e
    \/ /\ Len(text) >= 4
       /\ SubSeq(text, 1, 3) = <<":", "+", "1">>
       /\ \A i \in 4..Len(text) : text[i] = ":"

\* CommentPreparer._is_non_substantive(content)
is_non_substantive(content) == matches_pattern(Strip(content_lower(content)))

\* CommentPreparer._filter_comments(comments)
RECURSIVE filter_comments(_, _, _)
filter_comments(comments, exclude_bots, min_comment_length) ==
    IF comments = <<>> THEN <<>>
    ELSE LET comment == Head(comments)
             rest == filter_comments(Tail(comments), exclude_bots, min_comment_length)
         IN  IF exclude_bots /\ comment.is_bot THEN rest
             ELSE IF ~long_enough(comment.content, min_comment_length) THEN rest
             ELSE IF is_non_substantive(comment.content) THEN rest
             ELSE <<comment>> \o rest

\* The key of the empty path is the empty path.
file_key_none_only(comment) ==
    IF comment.file_path = PyNone THEN <<"general">> ELSE comment.file_path.s

\* file_path = comment.file_path or "general"
file_key(comment) ==
    IF Truthy(comment.file_path) THEN comment.file_path.s ELSE <<"general">>

\* The keys of CommentPreparer._category_keywords, in the order of the table.
CategoryKeywordOrder ==
    <<"architecture", "code_style", "performance", "security", "testing",
      "documentation", "naming", "error_handling", "maintainability">>

\* CommentPreparer._detect_categories(comment.content)
detect_categories(comment) ==
    LET Hit(c) == IF "kw" \in DOMAIN comment
                  THEN c \in comment.kw
                  ELSE has_keyword(c, content_lower(comment.content))
    IN  SelectSeq(CategoryKeywordOrder, Hit)

\* grouped[key].append(comment) on a defaultdict(list)
RECURSIVE AppendTo(_, _, _)
AppendTo(buckets, key, comment) ==
    IF buckets = <<>> THEN <<[key |-> key, comments |-> <<comment>>]>>
    ELSE IF Head(buckets).key = key
         THEN <<[key |-> key, comments |-> Append(Head(buckets).comments, comment)]>>
              \o Tail(buckets)
    ELSE <<Head(buckets)>> \o AppendTo(Tail(buckets), key, comment)

RECURSIVE AppendToAll(_, _, _)
AppendToAll(buckets, keys, comment) ==
    IF keys = <<>> THEN buckets
    ELSE AppendToAll(AppendTo(buckets, Head(keys), comment), Tail(keys), comment)

\* CommentPreparer._categorize_comments(comments)
RECURSIVE categorize_comments(_, _)
categorize_comments(comments, categorized) ==
    IF comments = <<>> THEN categorized
    ELSE LET categories == IF detect_categories(Head(comments)) = <<>>
                           THEN <<"other">>
                           ELSE detect_categories(Head(comments))
         IN  categorize_comments(Tail(comments),
                 AppendToAll(categorized, categories, Head(comments)))

\* CommentPreparer._group_by_file(comments)
RECURSIVE group_by_file(_, _)
group_by_file(comments, grouped) ==
    IF comments = <<>> THEN grouped
    ELSE group_by_file(Tail(comments),
             AppendTo(grouped, file_key(Head(comments)), Head(comments)))

\* CommentPreparer._group_by_reviewer(comments)
RECURSIVE group_by_reviewer(_, _)
group_by_reviewer(comments, grouped) ==
    IF comments = <<>> THEN grouped
    ELSE group_by_reviewer(Tail(comments),
             AppendTo(grouped, Head(comments).author, Head(comments)))

\* A separation that keeps the pull request creator.
separate_all_authors(comments_by_author, creator) == comments_by_author

\* ReviewerCommentProcessor.separate_reviewer_comments
separate_reviewer_comments(comments_by_author, creator) ==
    LET IsReviewer(b) == b.key # creator
    IN  SelectSeq(comments_by_author, IsReviewer)

\* A grouping that keeps the comments of the pull request creator.
categorize_all_comments(categorized_comments, creator) == categorized_comments

\* ReviewerCommentProcessor.categorize_reviewer_comments
categorize_reviewer_comments(categorized_comments, creator) ==
    LET NotCreator(c) == c.author # creator
        reviewer_only == [i \in DOMAIN categorized_comments |->
            [key |-> categorized_comments[i].key,
             comments |-> SelectSeq(categorized_comments[i].comments, NotCreator)]]
        NonEmpty(b) == b.comments # <<>>
    IN  SelectSeq(reviewer_only, NonEmpty)

(***************************************************************************)
(* ReviewAnalyzer (analyzer_chain.py): what the per-category and the       *)
(* overall routine make of the outcome of execute_with_retry.  exec is     *)
(* Raised (the executor raised LLMAnalysisError) or Returned(value).  The  *)
(* result is [produced, insight, cause, propagated]: produced = FALSE is   *)
(* the return value None, propagated = TRUE an exception that leaves the   *)
(* routine.                                                                *)
(***************************************************************************)
NoInsight(cause) ==
    [produced |-> FALSE, insight |-> PyNone, cause |-> cause, propagated |-> FALSE]

Insight(i, path) ==
    [produced |-> TRUE, insight |-> i, cause |-> path, propagated |-> FALSE]

\* An exception raised inside the try block of a routine.
RaisedInTry(cause) ==
    [produced |-> FALSE, insight |-> PyNone, cause |-> cause, propagated |-> TRUE]

\* The test of lines 231-235 / 294-298: the response is comprehensive.
IsComprehensive(analysis_data) ==
    /\ IsDict(analysis_data)
    /\ \/ HasKey(analysis_data, "reviewer_insights")
       \/ HasKey(analysis_data, "learning_opportunities")
       \/ HasKey(analysis_data, "actionable_guidance")

\* analysis_data["category"] = category; analysis_data["frequency"] = frequency
WithCategoryAndFrequency(analysis_data, category, frequency) ==
    PyDict(("category" :> PyStr(<<category>>)) @@
           ("frequency" :> PyInt(frequency)) @@
           analysis_data.m)

\* Severity(analysis_data.get("severity", default).lower()): [ok, val]
BasicSeverity(analysis_data, default) ==
    LET v == DictGet(analysis_data, "severity", PyStr(<<default>>))
    IN  IF v.t = "str" /\ IsMember(PyStr(Lower(v.s)), Severity)
        THEN Returned(Lower(v.s)[1])
        ELSE Raised

\* c.content[:100] + "..." if len(c.content) > 100 else c.content, for c in comments[:2]
ExamplesOf(comments) ==
    PyList([i \in 1..(IF Len(comments) < 2 THEN Len(comments) ELSE 2) |->
               PyStr(IF Len(comments[i].content) > 100
                     THEN SubSeq(comments[i].content, 1, 100) \o <<"...">>
                     ELSE comments[i].content)])

AuthorsOf(comments) ==
    PyList([i \in DOMAIN comments |-> PyStr(<<comments[i].author>>)])

\* Lines 218-255: the try block of _analyze_category_with_chain
category_try(category, comments, exec) ==
    IF ~exec.ok THEN RaisedInTry("llm_error")
    ELSE IF ~Truthy(exec.val) THEN NoInsight("empty_result")
    ELSE IF ~IsDict(exec.val) THEN NoInsight("not_dict")
    ELSE IF IsComprehensive(exec.val)
         THEN LET built == from_llm_response(
                     WithCategoryAndFrequency(exec.val, category, Len(comments)))
              IN  IF built.ok THEN Insight(built.val, "rich")
                  ELSE RaisedInTry("build_error")
    ELSE LET sev == BasicSeverity(exec.val, "medium")
         IN  IF ~sev.ok THEN RaisedInTry("build_error")
             ELSE Insight(
                    [category |-> category,
                     description |-> DictGet(exec.val, "description", PyStr(<<>>)),
                     frequency |-> PyInt(Len(comments)),
                     severity |-> sev.val,
                     examples |-> ExamplesOf(comments),
                     reviewers_mentioned |-> AuthorsOf(comments),
                     reviewer_insights |-> PyNone,
                     immediate_actions |-> <<>>,
                     reviewer_responses |-> <<>>], "basic")

\* A narrower handler, except LLMAnalysisError: an exception raised while
\* the insight is built leaves the routine.
category_except_llm_only(r) ==
    IF r.cause = "llm_error" THEN [r EXCEPT !.propagated = FALSE] ELSE r

\* Lines 256-261: except Exception: log a warning, return None
category_except(r) == [r EXCEPT !.propagated = FALSE]

\* ReviewAnalyzer._analyze_category_with_chain, given the executor outcome
analyze_category_with_chain(category, comments, exec) ==
    IF Len(comments) < 1 THEN NoInsight("no_comments")
    ELSE category_except(category_try(category, comments, exec))

\* sum(len(comments) for comments in reviewer_comments.values())
RECURSIVE SumOfSizes(_)
SumOfSizes(buckets) ==
    IF buckets = <<>> THEN 0
    ELSE Len(Head(buckets).comments) + SumOfSizes(Tail(buckets))

\* Lines 268-313: the try block of _analyze_overall_patterns
overall_try(stats_total, reviewers, exec) ==
    IF ~exec.ok THEN RaisedInTry("llm_error")
    ELSE IF ~Truthy(exec.val) THEN NoInsight("empty_result")
    ELSE IF IsComprehensive(exec.val)
         THEN LET built == from_llm_response(
                     WithCategoryAndFrequency(exec.val, "other", stats_total))
              IN  IF built.ok THEN Insight(built.val, "rich")
                  ELSE RaisedInTry("build_error")
    ELSE IF ~IsDict(exec.val) THEN RaisedInTry("build_error")
    ELSE LET sev == BasicSeverity(exec.val, "low")
         IN  IF ~sev.ok THEN RaisedInTry("build_error")
             ELSE Insight(
                    [category |-> "other",
                     description |-> DictGet(exec.val, "description", PyStr(<<>>)),
                     frequency |-> PyInt(SumOfSizes(reviewers)),
                     severity |-> sev.val,
                     examples |-> PyList(<<>>),
                     reviewers_mentioned |->
                         PyList([i \in DOMAIN reviewers |-> PyStr(<<reviewers[i].key>>)]),
                     reviewer_insights |-> PyNone,
                     immediate_actions |-> <<>>,
                     reviewer_responses |-> <<>>], "basic")

\* A narrower handler, except LLMAnalysisError: an exception raised while
\* the overall insight is built leaves the routine.
overall_except_llm_only(r) ==
    IF r.cause = "llm_error" THEN [r EXCEPT !.propagated = FALSE] ELSE r

\* Lines 314-317: except Exception: log a warning, return None
overall_except(r) == [r EXCEPT !.propagated = FALSE]

\* ReviewAnalyzer._analyze_overall_patterns, given the executor outcome
analyze_overall_patterns(stats_total, reviewers, exec) ==
    overall_except(overall_try(stats_total, reviewers, exec))

(***************************************************************************)
(* AnalysisResult (models/analysis_result.py): the two views over the      *)
(* reviewer responses of all insights.  A response is a record of Python   *)
(* values; a grouping is a sequence of buckets [key, responses] in         *)
(* insertion order, the key being the text of the group name.              *)
(***************************************************************************)
\* The order of the nested loops: insight order, then response order.
RECURSIVE AllResponses(_)
AllResponses(ins) ==
    IF ins = <<>> THEN <<>>
    ELSE Head(ins).reviewer_responses \o AllResponses(Tail(ins))

\* A key without the original comment.
response_key_without_comment(response) ==
    <<response.reviewer, PyNone, response.commit_group>>

\* Lines 236-240: the key that detects duplicates
response_key(response) ==
    <<response.reviewer, response.original_comment, response.commit_group>>

\* Lines 248-252: the bucket of a response
bucket_name(response) ==
    IF Truthy(response.commit_group) THEN response.commit_group.s
    ELSE <<"general">>

\* grouped_responses[name].append(response) on a defaultdict(list)
RECURSIVE AppendResponse(_, _, _)
AppendResponse(buckets, name, response) ==
    IF buckets = <<>> THEN <<[key |-> name, responses |-> <<response>>]>>
    ELSE IF Head(buckets).key = name
         THEN <<[key |-> name, responses |-> Append(Head(buckets).responses, response)]>>
              \o Tail(buckets)
    ELSE <<Head(buckets)>> \o AppendResponse(Tail(buckets), name, response)

RECURSIVE GroupLoop(_, _, _)
GroupLoop(responses, seen_responses, grouped_responses) ==
    IF responses = <<>> THEN grouped_responses
    ELSE LET response == Head(responses)
         IN  IF response_key(response) \in seen_responses
             THEN GroupLoop(Tail(responses), seen_responses, grouped_responses)
             ELSE GroupLoop(Tail(responses),
                      seen_responses \cup {response_key(response)},
                      AppendResponse(grouped_responses, bucket_name(response), response))

\* AnalysisResult.get_reviewer_responses_by_commit_group
get_reviewer_responses_by_commit_group(ins) ==
    GroupLoop(AllResponses(ins), {}, <<>>)

\* commit_messages[group] = message without the test of line 264: the last
\* message of a group replaces the earlier ones.
add_commit_message_overwriting(messages, response) ==
    IF Truthy(response.commit_group) /\ Truthy(response.suggested_commit_message)
    THEN (response.commit_group.s :> response.suggested_commit_message) @@ messages
    ELSE messages

\* Lines 262-267: one response's contribution to commit_messages, a
\* function from the text of a group name to the message
add_commit_message(messages, response) ==
    IF Truthy(response.commit_group) /\ Truthy(response.suggested_commit_message)
    THEN IF response.commit_group.s \notin DOMAIN messages
         THEN (response.commit_group.s :> response.suggested_commit_message) @@ messages
         ELSE messages
    ELSE messages

RECURSIVE MessageLoop(_, _)
MessageLoop(responses, messages) ==
    IF responses = <<>> THEN messages
    ELSE MessageLoop(Tail(responses), add_commit_message(messages, Head(responses)))

\* AnalysisResult.get_suggested_commit_messages
get_suggested_commit_messages(ins) ==
    MessageLoop(AllResponses(ins), EmptyMap)

(***************************************************************************)
(* OutputFormatter.format_markdown_output (output_formatter.py).  The      *)
(* report is a sequence of lines [kind, text]; a dict of lists of the      *)
(* result (learning_opportunities, valuable_insights) is a sequence of     *)
(* buckets [key, items] in insertion order.                                *)
(***************************************************************************)
Line(kind, text) == [kind |-> kind, text |-> text]

BlankLine == Line("blank", <<>>)

\* Lines 27-39: the header block
HeaderBlock(result) ==
    <<Line("title", <<"report">>),
      BlankLine,
      Line("meta", <<"repository">>),
      Line("meta", <<"pr_number">>),
      Line("meta", <<"analysis_timestamp">>),
      Line("meta", <<"counts", Len(result.insights), Len(result.reviewer_profiles)>>),
      BlankLine,
      Line("rule", <<>>),
      BlankLine>>

\* for i, insight in enumerate(items, 1): lines.append(f"{i}. {insight}")
NumberedLines(items) == [i \in DOMAIN items |-> Line("numbered", <<i, items[i]>>)]

\* for item in items: lines.append(f"- {item}")
BulletLines(items) == [i \in DOMAIN items |-> Line("bullet", <<items[i]>>)]

\* d.get(key, []) on a dict of lists
ItemsUnder(buckets, key) ==
    IF \E b \in DOMAIN buckets : buckets[b].key = key
    THEN buckets[CHOOSE b \in DOMAIN buckets : buckets[b].key = key].items
    ELSE <<>>

\* Lines 41-46: section 1
KnowledgeSection(result) ==
    IF result.key_knowledge_insights # <<>>
    THEN <<Line("h2", <<"knowledge insights">>), BlankLine>>
         \o NumberedLines(result.key_knowledge_insights) \o <<BlankLine>>
    ELSE <<>>

\* Lines 48-57: section 2
ActionsSection(result) ==
    IF result.learning_opportunities # <<>>
       /\ ItemsUnder(result.learning_opportunities, "immediate_actions") # <<>>
    THEN <<Line("h2", <<"immediate actions">>), BlankLine>>
         \o BulletLines(ItemsUnder(result.learning_opportunities, "immediate_actions"))
         \o <<BlankLine>>
    ELSE <<>>

\* Lines 59-64: section 3
MentoringSection(result) ==
    IF result.mentoring_insights # <<>>
    THEN <<Line("h2", <<"mentoring insights">>), BlankLine>>
         \o NumberedLines(result.mentoring_insights) \o <<BlankLine>>
    ELSE <<>>

\* Lines 69-80: the subsection of each bucket with items
RECURSIVE ValuableSubsections(_)
ValuableSubsections(buckets) ==
    IF buckets = <<>> THEN <<>>
    ELSE (IF Head(buckets).items # <<>>
          THEN <<Line("h3", <<"bucket", Head(buckets).key>>), BlankLine>>
               \o BulletLines(Head(buckets).items) \o <<BlankLine>>
          ELSE <<>>)
         \o ValuableSubsections(Tail(buckets))

\* Lines 66-80: section 4
ValuableSection(result) ==
    IF result.valuable_insights # <<>>
    THEN <<Line("h2", <<"valuable insights">>), BlankLine>>
         \o ValuableSubsections(result.valuable_insights)
    ELSE <<>>

\* The insights that hold a response equal to the given one.
InsightsWith(response, insights) ==
    {k \in DOMAIN insights :
        \E j \in DOMAIN insights[k].reviewer_responses :
            insights[k].reviewer_responses[j] = response}

\* The last insight that holds the response, 0 when none does.
insight_context_last(response, insights) ==
    IF InsightsWith(response, insights) = {} THEN 0
    ELSE SetMax(InsightsWith(response, insights))

\* Lines 122-126: the first insight whose reviewer_responses hold a response
\* equal to the given one, 0 for None
insight_context(response, insights) ==
    IF InsightsWith(response, insights) = {} THEN 0
    ELSE SetMin(InsightsWith(response, insights))

\* Lines 120-171: the lines of one response
ResponseLines(i, r, insights) ==
    LET context == insight_context(r, insights)
    IN  <<Line("h4", <<i, r.reviewer>>), BlankLine>>
        \o (IF Truthy(r.original_comment)
            THEN <<Line("response", <<"original comment">>), BlankLine,
                   Line("response", <<"cleaned", r.original_comment>>), BlankLine>>
            ELSE <<>>)
        \o (IF context # 0
            THEN <<Line("context", <<"title of", insights[context].category>>),
                   Line("context", <<"truncated", insights[context].description>>),
                   BlankLine>>
                 \o (IF Truthy(insights[context].examples)
                     THEN <<Line("response", <<"examples">>), BlankLine,
                            Line("response",
                                 <<"truncated", insights[context].examples.elems[1]>>),
                            BlankLine>>
                     ELSE <<>>)
            ELSE <<>>)
        \o <<Line("response", <<"English Response", r.response>>),
             BlankLine,
             Line("response", <<"Copilot instruction">>),
             Line("code", <<"fence">>),
             Line("code", r.copilot_instruction.s),
             Line("code", <<"fence">>),
             BlankLine>>

RECURSIVE AllResponseLines(_, _, _)
AllResponseLines(responses, i, insights) ==
    IF responses = <<>> THEN <<>>
    ELSE ResponseLines(i, Head(responses), insights)
         \o AllResponseLines(Tail(responses), i + 1, insights)

\* A Copilot instruction counts with its surrounding whitespace.
is_meaningful_untrimmed(r) ==
    Truthy(r.copilot_instruction) /\ Len(r.copilot_instruction.s) > 10

\* Lines 94-100: the responses with a Copilot instruction of more than ten
\* characters once trimmed
is_meaningful(r) ==
    /\ Truthy(r.copilot_instruction)
    /\ Strip(r.copilot_instruction.s) # <<>>
    /\ Len(Strip(r.copilot_instruction.s)) > 10

\* Lines 89-173: the subsection of each commit group with meaningful
\* responses
RECURSIVE CommitGroupSubsections(_, _, _)
CommitGroupSubsections(commit_groups, messages, insights) ==
    IF commit_groups = <<>> THEN <<>>
    ELSE LET group == Head(commit_groups)
             meaningful_responses == SelectSeq(group.responses, is_meaningful)
         IN  (IF group.responses = <<>> \/ meaningful_responses = <<>>
              THEN <<>>
              ELSE <<Line("h3", <<"commit group", group.key>>), BlankLine>>
                   \o (IF group.key \in DOMAIN messages
                       THEN <<Line("commit_message", <<messages[group.key]>>), BlankLine>>
                       ELSE <<>>)
                   \o AllResponseLines(meaningful_responses, 1, insights)
                   \o <<BlankLine>>)
             \o CommitGroupSubsections(Tail(commit_groups), messages, insights)

\* Lines 82-173: section 5
ResponsesSection(result) ==
    LET commit_groups == get_reviewer_responses_by_commit_group(result.insights)
        messages == get_suggested_commit_messages(result.insights)
    IN  IF commit_groups # <<>>
        THEN <<Line("h2", <<"reviewer responses">>), BlankLine>>
             \o CommitGroupSubsections(commit_groups, messages, result.insights)
        ELSE <<>>

\* OutputFormatter.format_markdown_output(result): the lines joined by the
\* final join
format_markdown_output(result) ==
    HeaderBlock(result)
    \o KnowledgeSection(result)
    \o ActionsSection(result)
    \o MentoringSection(result)
    \o ValuableSection(result)
    \o ResponsesSection(result)

(***************************************************************************)
(* InsightExtractor (analysis_helpers/insight_extractor.py).  A list made  *)
(* with list(set(...)) has no order of its own: it is modelled as a set.   *)
(***************************************************************************)
\* severity_weights.get(insight.severity.value, 0)
severity_weight(severity) ==
    CASE severity = "high" -> 5
      [] severity = "medium" -> 3
      [] severity = "low" -> 1
      [] OTHER -> 0

\* InsightExtractor._calculate_learning_value(insight), doubled: the weight
\* of a reviewer is 1.5
calculate_learning_value(insight) ==
    2 * (insight.frequency.n * 2)
    + 2 * severity_weight(insight.severity)
    + (IF Len(insight.description.s) > 200 THEN 2 * 2 ELSE 0)
    + 3 * Len(insight.reviewers_mentioned.elems)

\* The place of x in a list sorted by descending value: before the first
\* element whose value is not greater, so that equal values come out in
\* reverse order.
RECURSIVE insert_before_equal(_, _)
insert_before_equal(sorted, x) ==
    IF sorted = <<>> THEN <<x>>
    ELSE IF calculate_learning_value(Head(sorted)) > calculate_learning_value(x)
         THEN <<Head(sorted)>> \o insert_before_equal(Tail(sorted), x)
    ELSE <<x>> \o sorted

\* The place of x in a list sorted by descending value, x being later in
\* the input than the elements of the list: after the elements whose value
\* is not smaller (sorted(..., reverse=True) is stable).
RECURSIVE insert_sorted(_, _)
insert_sorted(sorted, x) ==
    IF sorted = <<>> THEN <<x>>
    ELSE IF calculate_learning_value(Head(sorted)) >= calculate_learning_value(x)
         THEN <<Head(sorted)>> \o insert_sorted(Tail(sorted), x)
    ELSE <<x>> \o sorted

\* sorted(insights, key=_calculate_learning_value, reverse=True)
RECURSIVE sorted_insights(_)
sorted_insights(list) ==
    IF list = <<>> THEN <<>>
    ELSE insert_sorted(sorted_insights(SubSeq(list, 1, Len(list) - 1)), list[Len(list)])

\* sorted_insights[:10]
TopInsights == 10

\* f"{text[:n]}{'...' if len(text) > n else ''}"
Truncated(text, n) == Prefix(text, n) \o (IF Len(text) > n THEN <<"...">> ELSE <<>>)

\* InsightExtractor._extract_legacy_insight(insight)
extract_legacy_insight(insight) ==
    PyStr(<<"title of", insight.category>> \o Truncated(insight.description.s, 150))

\* InsightExtractor._format_knowledge_insight(insight)
format_knowledge_insight(insight) ==
    LET tech_knowledge == insight.reviewer_insights.technical_knowledge
        experience == insight.reviewer_insights.experience_lessons
    IN  IF insight.reviewer_insights # PyNone
           /\ Truthy(tech_knowledge) /\ Len(Strip(tech_knowledge.s)) > 20
        THEN PyStr(<<"title of", insight.category>> \o Truncated(tech_knowledge.s, 150))
        ELSE IF insight.reviewer_insights # PyNone
                /\ Truthy(experience) /\ Len(Strip(experience.s)) > 20
        THEN PyStr(<<"title of", insight.category>> \o Truncated(experience.s, 150))
        ELSE PyStr(<<"title of", insight.category>> \o Truncated(insight.description.s, 150))

\* The entry of one insight, None when it has none
knowledge_entry(insight) ==
    IF insight.reviewer_insights # PyNone
    THEN format_knowledge_insight(insight)
    ELSE extract_legacy_insight(insight)

\* InsightExtractor.extract_knowledge_insights(insights)
extract_knowledge_insights(list) ==
    LET top == Prefix(sorted_insights(list), TopInsights)
        entries == [i \in DOMAIN top |-> knowledge_entry(top[i])]
    IN  SelectSeq(entries, Truthy)

\* The elements of the lists of a sequence of lists
RECURSIVE Extended(_)
Extended(lists) ==
    IF lists = <<>> THEN {}
    ELSE {Head(lists)[i] : i \in DOMAIN Head(lists)} \cup Extended(Tail(lists))

\* Lines 99-103: insight.actionable_guidance.valuable_comments or [], for
\* an insight with a truthy attribute actionable_guidance
valuable_comments_of(insight) ==
    IF "actionable_guidance" \in DOMAIN insight
    THEN IF insight.actionable_guidance # PyNone
            /\ "valuable_comments" \in DOMAIN insight.actionable_guidance
            /\ Truthy(insight.actionable_guidance.valuable_comments)
         THEN insight.actionable_guidance.valuable_comments.elems
         ELSE <<>>
    ELSE <<>>

\* Lines 105-109: the design philosophy of more than ten characters once
\* trimmed
philosophy_of(insight) ==
    IF insight.reviewer_insights # PyNone
       /\ Truthy(insight.reviewer_insights.design_philosophy)
       /\ Len(Strip(insight.reviewer_insights.design_philosophy.s)) > 10
    THEN <<insight.reviewer_insights.design_philosophy>>
    ELSE <<>>

\* Lines 111-113: insight.reviewer_insights.best_practices or []
practices_of(insight) ==
    IF insight.reviewer_insights # PyNone
       /\ Truthy(insight.reviewer_insights.best_practices)
    THEN insight.reviewer_insights.best_practices.elems
    ELSE <<>>

\* Lines 117-127: the entry made of the technical knowledge of an insight
technical_fallback_of(insight) ==
    IF insight.reviewer_insights # PyNone
       /\ Truthy(insight.reviewer_insights.technical_knowledge)
       /\ Len(Strip(insight.reviewer_insights.technical_knowledge.s)) > 20
    THEN <<PyStr(<<"reviewer shows understanding of", insight.category>>
                 \o Truncated(insight.reviewer_insights.technical_knowledge.s, 200))>>
    ELSE <<>>

\* list(set(items))[:10]
BucketCap == 10

\* The lists list(set(items))[:10] may be: the order of a set is not
\* defined, any BucketCap of the items may be the ones kept.
Capped(items) ==
    {kept \in SUBSET items :
        Cardinality(kept) = (IF Cardinality(items) < BucketCap
                             THEN Cardinality(items) ELSE BucketCap)}

\* Lines 91-127 of extract_valuable_insights: the buckets before the
\* clean-up
valuable_buckets(list) ==
    LET style == Extended([i \in DOMAIN list |-> valuable_comments_of(list[i])])
        philosophy == Extended([i \in DOMAIN list |-> philosophy_of(list[i])])
        habits == Extended([i \in DOMAIN list |-> practices_of(list[i])])
    IN  [style_forming_comments |->
             IF style = {} /\ philosophy = {} /\ habits = {}
             THEN Extended([i \in DOMAIN list |-> technical_fallback_of(list[i])])
             ELSE style,
         development_philosophy |-> philosophy,
         professional_habits |-> habits]

\* InsightExtractor.extract_valuable_insights(insights, prepared_data): the
\* results the clean-up of lines 129-130 may give
extract_valuable_insights(list) ==
    LET b == valuable_buckets(list)
    IN  {[style_forming_comments |-> s,
          development_philosophy |-> p,
          professional_habits |-> h] :
            s \in Capped(b.style_forming_comments),
            p \in Capped(b.development_philosophy),
            h \in Capped(b.professional_habits)}

(***************************************************************************)
(* ProfileBuilder (analysis_helpers/profile_builder.py).  The reviewer map *)
(* is a sequence of buckets [key, comments] in insertion order; a Counter  *)
(* is a sequence of [key, count] in the order the keys were first counted. *)
(***************************************************************************)
\* keyword_categories of categorize_comments, in the order of the dict
ProfileKeywordCategories ==
    <<
     [category |-> "maintainability", words |-> <<
         <<"c", "o", "n", "f", "i", "g">>,
         <<"c", "o", "n", "f", "i", "g", "u", "r", "a", "t", "i", "o", "n">>,
         <<"s", "e", "t", "t", "i", "n", "g">>,
         <<"m", "a", "i", "n", "t", "a", "i", "n">>,
         <<"r", "e", "f", "a", "c", "t", "o", "r">>,
         <<"o", "r", "g", "a", "n", "i", "z", "e">>>>],
     [category |-> "documentation", words |-> <<
         <<"d", "o", "c", "u", "m", "e", "n", "t">>,
         <<"r", "e", "a", "d", "m", "e">>,
         <<"c", "o", "m", "m", "e", "n", "t">>,
         <<"e", "x", "p", "l", "a", "i", "n">>,
         <<"c", "l", "a", "r", "i", "f", "y">>>>],
     [category |-> "architecture", words |-> <<
         <<"a", "r", "c", "h", "i", "t", "e", "c", "t", "u", "r", "e">>,
         <<"d", "e", "s", "i", "g", "n">>,
         <<"s", "t", "r", "u", "c", "t", "u", "r", "e">>,
         <<"p", "a", "t", "t", "e", "r", "n">>,
         <<"t", "o", "o", "l">>,
         <<"b", "u", "i", "l", "d">>>>],
     [category |-> "code_style", words |-> <<
         <<"s", "t", "y", "l", "e">>,
         <<"f", "o", "r", "m", "a", "t">>,
         <<"n", "a", "m", "i", "n", "g">>,
         <<"c", "o", "n", "v", "e", "n", "t", "i", "o", "n">>,
         <<"c", "l", "e", "a", "n">>>>],
     [category |-> "error_handling", words |-> <<
         <<"e", "r", "r", "o", "r">>,
         <<"e", "x", "c", "e", "p", "t", "i", "o", "n">>,
         <<"h", "a", "n", "d", "l", "e">>,
         <<"g", "r", "a", "c", "e", "f", "u", "l">>,
         <<"s", "h", "u", "t", "d", "o", "w", "n">>>>],
     [category |-> "testing", words |-> <<
         <<"t", "e", "s", "t">>,
         <<"t", "e", "s", "t", "i", "n", "g">>,
         <<"c", "o", "v", "e", "r", "a", "g", "e">>,
         <<"s", "p", "e", "c">>>>],
     [category |-> "performance", words |-> <<
         <<"p", "e", "r", "f", "o", "r", "m", "a", "n", "c", "e">>,
         <<"o", "p", "t", "i", "m", "i", "z", "e">>,
         <<"e", "f", "f", "i", "c", "i", "e", "n", "t">>,
         <<"f", "a", "s", "t">>,
         <<"s", "l", "o", "w">>>>],
     [category |-> "security", words |-> <<
         <<"s", "e", "c", "u", "r", "i", "t", "y">>,
         <<"a", "u", "t", "h">>,
         <<"p", "e", "r", "m", "i", "s", "s", "i", "o", "n">>,
         <<"v", "a", "l", "i", "d", "a", "t", "e">>,
         <<"s", "a", "n", "i", "t", "i", "z", "e">>>>]
    >>

\* any(word in content_lower for word in keywords)
any_word_in(words, text) == \E k \in DOMAIN words : IsSubstring(words[k], text)

\* A loop without the break: the comment is counted under every category
\* with a hit.
every_hit_category(text) ==
    LET Hit(e) == any_word_in(e.words, text)
        hits == SelectSeq(ProfileKeywordCategories, Hit)
    IN  IF hits = <<>> THEN <<"other">>
        ELSE [i \in DOMAIN hits |-> hits[i].category]

\* The loop over keyword_categories with its break, then the default: the
\* categories the comment is counted under.
counted_categories(text) ==
    LET Hit(e) == any_word_in(e.words, text)
        hits == SelectSeq(ProfileKeywordCategories, Hit)
    IN  IF hits = <<>> THEN <<"other">>
        ELSE <<hits[1].category>>

\* category_counts[category] += 1 on a Counter
Increment(counts, category) ==
    IF \E i \in DOMAIN counts : counts[i].key = category
    THEN [i \in DOMAIN counts |->
            IF counts[i].key = category
            THEN [key |-> category, count |-> counts[i].count + 1]
            ELSE counts[i]]
    ELSE Append(counts, [key |-> category, count |-> 1])

RECURSIVE IncrementAll(_, _)
IncrementAll(counts, categories) ==
    IF categories = <<>> THEN counts
    ELSE IncrementAll(Increment(counts, Head(categories)), Tail(categories))

\* ProfileBuilder.categorize_comments(comments)
RECURSIVE profile_categorize_comments(_, _)
profile_categorize_comments(comments, category_counts) ==
    IF comments = <<>> THEN category_counts
    ELSE profile_categorize_comments(Tail(comments),
             IncrementAll(category_counts,
                 counted_categories(content_lower(Head(comments).content))))

\* The place of one more entry in a list sorted by count, largest first:
\* after the entries of the same count (the sort is stable).
insert_by_count(ranked, e) ==
    LET n == Cardinality({i \in DOMAIN ranked : ranked[i].count >= e.count})
    IN  SubSeq(ranked, 1, n) \o <<e>> \o SubSeq(ranked, n + 1, Len(ranked))

\* Counter.most_common(): the entries by count, largest first, entries of
\* one count in the order they were first counted
RECURSIVE most_common(_, _)
most_common(counts, ranked) ==
    IF counts = <<>> THEN ranked
    ELSE most_common(Tail(counts), insert_by_count(ranked, Head(counts)))

\* seq[:n]
FirstN(seq, n) == SubSeq(seq, 1, IF Len(seq) < n THEN Len(seq) ELSE n)

\* sum(len(c.content) for c in comments)
RECURSIVE SumOfLengths(_)
SumOfLengths(comments) ==
    IF comments = <<>> THEN 0
    ELSE Len(Head(comments).content) + SumOfLengths(Tail(comments))

\* round(total / count, 1), in tenths: Python rounds a tie to the even digit
round_tenths(total, count) ==
    LET q == (10 * total) \div count
        r == (10 * total) % count
    IN  IF 2 * r < count THEN q
        ELSE IF 2 * r > count THEN q + 1
        ELSE IF q % 2 = 0 THEN q ELSE q + 1

\* ProfileBuilder.create_reviewer_profile(reviewer, comments)
create_reviewer_profile(reviewer, comments) ==
    LET comment_count == Len(comments)
        category_counts == profile_categorize_comments(comments, <<>>)
        Positive(e) == e.count > 0
        top == SelectSeq(FirstN(most_common(category_counts, <<>>), 3), Positive)
    IN  [reviewer_name |-> reviewer,
         total_comments |-> comment_count,
         top_categories |-> IF top = <<>> THEN <<"other">>
                            ELSE [i \in DOMAIN top |-> top[i].key],
         average_comment_length |->
             round_tenths(SumOfLengths(comments), comment_count),
         focus_areas |-> most_common(category_counts, <<>>)]

\* ProfileBuilder.build_reviewer_profiles(reviewer_comments)
RECURSIVE build_reviewer_profiles(_)
build_reviewer_profiles(reviewers) ==
    IF reviewers = <<>> THEN <<>>
    ELSE (IF Len(Head(reviewers).comments) >= 1
          THEN <<create_reviewer_profile(Head(reviewers).key,
                                         Head(reviewers).comments)>>
          ELSE <<>>)
         \o build_reviewer_profiles(Tail(reviewers))

(***************************************************************************)
(* Bounds of the model.                                                    *)
(***************************************************************************)
\* The largest number of filtered comments of a pull request.
MaxComments == 2

\* The largest configured retry count (LLMConfig.retry) of the analyses of
\* Spec, and of the executor runs of SpecRetry.
MaxRunRetry == 2

MaxRetry == 3

\* The bounds of the runs of the whole of cli.analyze.
MaxCliComments == 1

MaxCliRetry == 2

\* The largest retry count of the runs checked for termination.
MaxTerminationRetry == 2

Authors == {"creator", "alice"}

\* The categories whose keywords occur in the comments of the model.
KeywordHits == {"security"}

\* The content of comment i without a keyword of the preparer, and with a
\* keyword of its category security.
ContentOf ==
    <<<<"w", "h", "y", Blank, "1">>, <<"w", "h", "y", Blank, "2">>,
      <<"w", "h", "y", Blank, "3">>, <<"w", "h", "y", Blank, "4">>>>

SecurityContentOf ==
    <<<<"s", "a", "n", "i", "t", "i", "z", "e", Blank, "1">>,
      <<"s", "a", "n", "i", "t", "i", "z", "e", Blank, "2">>,
      <<"s", "a", "n", "i", "t", "i", "z", "e", Blank, "3">>,
      <<"s", "a", "n", "i", "t", "i", "z", "e", Blank, "4">>>>

\* The comment lists: comment i has the content ContentOf[i], or
\* SecurityContentOf[i] when the preparer found a security keyword in it.
CommentLists ==
    UNION {[1..n -> [author : Authors, kw : SUBSET KeywordHits]] : n \in 0..MaxComments}

WithContent(l) ==
    [i \in DOMAIN l |->
        [author |-> l[i].author,
         content |-> IF "security" \in l[i].kw THEN SecurityContentOf[i]
                     ELSE ContentOf[i],
         kw |-> l[i].kw]]

\* The longest response text given to the parser alone.
MaxResponseLen == 4

ParseAlphabet ==
    {Fence, JsonWord, Newline, "{", "}", "1", "prose", "k:severity"}

\* Well-formed JSON objects with the mapping each denotes: the empty
\* object, flat objects, an object over several lines, a nested object, and
\* an object with a string that holds a fence.
JsonObjects ==
    {[text |-> <<"{", "}">>, val |-> PyDict(EmptyMap)],
     [text |-> <<"{", "k:severity", "s:high", "}">>,
      val |-> PyDict("severity" :> PyStr(<<"high">>))],
     [text |-> <<"{", Newline, Blank, "k:description", "s:text", Newline, Blank,
                 "k:severity", "s:low", Newline, "}">>,
      val |-> PyDict(("description" :> PyStr(<<"text">>)) @@
                     ("severity" :> PyStr(<<"low">>)))],
     [text |-> <<"{", "k:reviewer_insights", "{", "}", "k:immediate_actions",
                 "[", "1", "]", "}">>,
      val |-> PyDict(("reviewer_insights" :> PyDict(EmptyMap)) @@
                     ("immediate_actions" :> PyList(<<PyInt(1)>>)))],
     [text |-> <<"{", "k:description", Quote, "prose", Blank, Fence, Quote, "}">>,
      val |-> PyDict("description" :> PyStr(<<"prose", Blank, Fence>>))]}

\* The four presentations of a JSON text.
PresentationForms == {"json_fence", "generic_fence", "prose", "bare"}

Present(form, text) ==
    CASE form = "json_fence" ->
             <<"prose", Newline, Fence, JsonWord, Newline>> \o text \o <<Newline, Fence>>
      [] form = "generic_fence" ->
             <<"prose", Newline, Fence, Newline>> \o text \o <<Newline, Fence, Newline, "prose">>
      [] form = "prose" -> <<"prose", Blank>> \o text \o <<Blank, "prose">>
      [] form = "bare" -> text

PresentationTexts ==
    {Present(form, J.text) : form \in PresentationForms, J \in JsonObjects}

\* A fenced block that is not JSON, json-marked or generic, followed by a
\* JSON object.
BrokenBlockThenObject ==
    {<<Fence>> \o marker \o <<Newline, "prose", Newline, Fence, Newline,
       "{", "k:severity", "s:high", "}">> : marker \in {<<>>, <<JsonWord>>}}

\* The responses given to the parser alone: every text up to MaxResponseLen
\* over ParseAlphabet, None, the presentations of JsonObjects, and the
\* broken blocks followed by an object.
ParseInputs ==
    UNION {[1..n -> ParseAlphabet] : n \in 0..MaxResponseLen}
    \cup {NoneText}
    \cup PresentationTexts
    \cup BrokenBlockThenObject

\* The largest number of reviewer responses of an AnalysisResult.
MaxResponses == 2

\* The reviewer responses of the model: who answers which comment, the
\* commit group (absent, empty or named) and the suggested message.
ResponseValues ==
    {[reviewer |-> PyStr(<<w[1]>>),
      response |-> PyStr(<<"thanks">>),
      copilot_instruction |-> PyStr(<<"First analyze the handler">>),
      commit_group |-> g,
      suggested_commit_message |-> m,
      original_comment |-> w[2]] :
        w \in {<<"alice", PyNone>>, <<"alice", PyStr(<<"comment 1">>)>>,
               <<"bob", PyStr(<<"comment 1">>)>>},
        g \in {PyNone, PyStr(<<>>), PyStr(<<"error-handling">>)},
        m \in {PyNone, PyStr(<<"feat: a">>), PyStr(<<"feat: b">>)}}

ResponseLists == UNION {[1..n -> ResponseValues] : n \in 0..MaxResponses}

\* The insight lists of the model: two insights that share the responses.
InsightOf(category, responses) ==
    [category |-> category,
     description |-> PyStr(<<"text">>),
     frequency |-> PyInt(1),
     severity |-> "high",
     examples |-> PyList(<<>>),
     reviewers_mentioned |-> PyList(<<>>),
     reviewer_insights |-> PyNone,
     immediate_actions |-> <<>>,
     reviewer_responses |-> responses]

InsightLists ==
    {<<InsightOf("security", SubSeq(l, 1, k)), InsightOf("other", SubSeq(l, k + 1, Len(l)))>> :
        <<l, k>> \in {x \in ResponseLists \X (0..MaxResponses) : x[2] <= Len(x[1])}}
    \cup {<<>>}

\* The largest number of comments given to the preparer alone.
MaxRawComments == 2

\* The texts of the comments given to the preparer.
RawContents ==
    <<<<"L", "a", "t", "e", "s", "t", Blank, "X", "S", "S", Blank, "i", "s", "s", "u", "e">>,
      <<"P", "l", "e", "a", "s", "e", Blank, "f", "i", "x", Blank, "t", "h", "i", "s", Blank, "s", "o", "o", "n">>,
      <<"L", "G", "T", "M">>,
      <<"L", "o", "o", "k", "s", Blank, "g", "o", "o", "d", Blank, "t", "o", Blank, "m", "e", ".">>,
      <<Blank, Blank, "o", "k", Blank, Blank>>,
      <<"R", "e", "n", "a", "m", "e", Blank, "t", "h", "e", Blank, "T", "e", "s", "t">>,
      <<"n", "i", "c", "e", Blank, "n", "a", "m", "i", "n", "g">>,
      <<":", "+", "1", ":", ":">>,
      <<"A", "p", "p", "r", "o", "v", "e", "d">>>>

\* The comments given to the preparer: reviewers and bots, texts that are
\* kept, too short or non-substantive, with and without a file.
RawCommentValues ==
    {ReviewComment(<<"alice">>, RawContents[1], PyStr(<<"a.py">>)),
     ReviewComment(<<"alice">>, RawContents[2], PyNone),
     ReviewComment(<<"alice">>, RawContents[3], PyStr(<<>>)),
     ReviewComment(<<"robot">>, RawContents[4], PyStr(<<"a.py">>)),
     ReviewComment(<<"robot">>, RawContents[5], PyNone),
     ReviewComment(<<"dependabot", "[bot]">>, RawContents[6], PyStr(<<"b.py">>)),
     ReviewComment(<<"dependabot", "[bot]">>, RawContents[3], PyNone),
     ReviewComment(<<"ci", "-bot">>, RawContents[7], PyStr(<<>>)),
     ReviewComment(<<"ci", "-bot">>, RawContents[8], PyStr(<<"a.py">>)),
     ReviewComment(<<"bob">>, RawContents[9], PyStr(<<"b.py">>))}

RawCommentLists == UNION {[1..n -> RawCommentValues] : n \in 0..MaxRawComments}

\* The values of min_comment_length in the model: the default and a small one.
MinCommentLengths == {3, 10}

\* The largest number of items of a list of the result given to the
\* formatter alone.
MaxReportItems == 1

\* The largest number of insights of that result, and of reviewer
\* responses of one insight.
MaxReportInsights == 2

MaxReportResponses == 1

ItemLists == UNION {[1..n -> {"item"}] : n \in 0..MaxReportItems}

\* The reviewer responses given to the formatter: two of one (reviewer,
\* original_comment, commit_group) triple with Copilot instructions of more
\* than ten characters, one with a short instruction and a suggested commit
\* message, one with a blank instruction.
FormatResponses ==
    {[reviewer |-> PyStr(<<"alice">>),
      response |-> PyStr(<<"thanks">>),
      copilot_instruction |-> PyStr(<<"F", "i", "r", "s", "t", Blank, "a", "n", "a", "l", "y", "z", "e", Blank, "t", "h", "e", Blank, "h", "a", "n", "d", "l", "e", "r">>),
      commit_group |-> PyStr(<<"error-handling">>),
      suggested_commit_message |-> PyStr(<<"feat: a">>),
      original_comment |-> PyStr(<<"comment 1">>)],
     [reviewer |-> PyStr(<<"alice">>),
      response |-> PyStr(<<"will do">>),
      copilot_instruction |-> PyStr(<<"T", "h", "e", "n", Blank, "r", "e", "n", "a", "m", "e", Blank, "t", "h", "e", Blank, "h", "a", "n", "d", "l", "e", "r">>),
      commit_group |-> PyStr(<<"error-handling">>),
      suggested_commit_message |-> PyNone,
      original_comment |-> PyStr(<<"comment 1">>)],
     [reviewer |-> PyStr(<<"bob">>),
      response |-> PyStr(<<"thanks">>),
      copilot_instruction |-> PyStr(<<"f", "i", "x", Blank, "i", "t">>),
      commit_group |-> PyStr(<<"naming">>),
      suggested_commit_message |-> PyStr(<<"feat: b">>),
      original_comment |-> PyStr(<<"comment 2">>)],
     [reviewer |-> PyStr(<<"bob">>),
      response |-> PyStr(<<"thanks">>),
      copilot_instruction |-> PyStr(<<Blank, Blank, Blank, Blank, Blank, Blank, Blank, Blank, Blank, Blank, Blank, Blank>>),
      commit_group |-> PyNone,
      suggested_commit_message |-> PyNone,
      original_comment |-> PyNone]}

\* The insight lists given to the formatter: insight k has the category
\* ReportCategories[k] and its own description.
ReportCategories == <<"security", "testing", "performance">>

ReportInsights ==
    UNION {{[k \in 1..n |->
                [InsightOf(ReportCategories[k], rs[k])
                    EXCEPT !.description = PyStr(<<"insight", k>>)]] :
              rs \in [1..n -> UNION {[1..m -> FormatResponses] :
                                        m \in 0..MaxReportResponses}]} :
           n \in 0..MaxReportInsights}

\* extract_valuable_insights always returns these three buckets.
ValuableKeys ==
    <<"style_forming_comments", "development_philosophy", "professional_habits">>

ReportResult(ins, k, lo, m, v) ==
    [insights |-> ins,
     reviewer_profiles |-> <<>>,
     key_knowledge_insights |-> k,
     learning_opportunities |-> lo,
     mentoring_insights |-> m,
     valuable_insights |-> v]

\* The results given to the formatter: AnalysisResult objects as
\* build_analysis_result makes them and as the constructor defaults them,
\* every combination of the lists and buckets without reviewer responses,
\* and every insight list with full lists and buckets.
ReportResults ==
    {ReportResult(<<>>, k, lo, m, v) :
        k \in ItemLists,
        lo \in {<<>>} \cup {<<[key |-> "immediate_actions", items |-> a]>> : a \in ItemLists},
        m \in ItemLists,
        v \in {<<>>} \cup
              {[i \in 1..3 |-> [key |-> ValuableKeys[i], items |-> f[i]]] :
                  f \in [1..3 -> ItemLists]}}
    \cup
    {ReportResult(ins, <<"item">>, <<[key |-> "immediate_actions", items |-> <<"item">>]>>,
                  <<"item">>,
                  [i \in 1..3 |-> [key |-> ValuableKeys[i], items |-> <<"item">>]]) :
        ins \in ReportInsights}

\* The largest number of insights ranked with every frequency, severity,
\* description and reviewer list of the model.
MaxRankedInsights == 2

\* The insights beyond TopInsights of the long lists given to the
\* extractor.
MaxExtraInsights == 1

\* The largest number of LLM responses with valuable insights.
MaxValuableResponses == 2

\* The category of the k-th LLM response given to the extractor.
CategoryAt ==
    <<"architecture", "code_style", "performance", "security", "testing",
      "documentation", "naming", "error_handling", "maintainability",
      "business_logic", "api_design", "data_handling", "user_experience", "other">>

ShortDescription == PyStr(<<"text">>)

LongDescription == PyStr([i \in 1..201 |-> "x"])

\* The LLM response of a category, as _analyze_category_with_chain gives it
\* to from_llm_response.
RankedData(frequency, severity, description, reviewers) ==
    PyDict(("frequency" :> PyInt(frequency)) @@
           ("severity" :> PyStr(<<severity>>)) @@
           ("description" :> description) @@
           ("reviewers_mentioned" :> PyList([i \in 1..reviewers |-> PyStr(<<"alice">>)])))

RankedValues ==
    {RankedData(f, v, d, r) :
        f \in {1, 2}, v \in Severity, d \in {ShortDescription, LongDescription},
        r \in {0, 1}}

\* The two values of the long lists: their scores are 7 and 3.
LongListValues ==
    {RankedData(1, "high", ShortDescription, 0), RankedData(1, "low", ShortDescription, 0)}

\* LLM responses with the fields extract_valuable_insights reads.
ValuableData ==
    {PyDict(("reviewer_insights" :> PyDict(
                ("design_philosophy" :> PyStr(<<"K", "e", "e", "p", Blank, "i", "t", Blank, "s", "i", "m", "p", "l", "e">>)) @@
                ("best_practices" :> PyList(<<PyStr(<<"practice 1">>), PyStr(<<"practice 2">>)>>)))) @@
            ("actionable_guidance" :> PyDict(
                "valuable_comments" :> PyList(<<PyStr(<<"prefer early returns">>)>>)))),
     PyDict("reviewer_insights" :> PyDict(
                ("design_philosophy" :> PyStr(<<"K", "I", "S", "S">>)) @@
                ("technical_knowledge" :> PyStr(<<"V", "a", "l", "i", "d", "a", "t", "e", Blank, "i", "n", "p", "u", "t", "s", Blank, "a", "t", Blank, "t", "h", "e", Blank, "b", "o", "u", "n", "d", "a", "r", "y">>)))),
     PyDict("actionable_guidance" :> PyDict(
                "valuable_comments" :> PyList(<<PyStr(<<"name the units">>)>>))),
     PyDict("reviewer_insights" :> PyDict(
                "best_practices" :> PyList([i \in 1..(BucketCap + 1) |-> PyStr(<<"practice", i>>)]))),
     PyDict("reviewer_insights" :> PyDict(
                ("design_philosophy" :> PyStr(<<Blank, Blank, Blank, "b", "e", Blank, "k", "i", "n", "d", Blank, Blank, Blank>>)) @@
                ("best_practices" :> PyList(<<PyStr(<<"practice 1">>)>>))))}

\* The lists of LLM responses given to the extractor, one response per
\* category: the k-th has the category CategoryAt[k].
WithCategories(list) ==
    [k \in DOMAIN list |-> PyDict(("category" :> PyStr(<<CategoryAt[k]>>)) @@ list[k].m)]

ExtractorInputs ==
    {WithCategories(l) :
        l \in UNION {[1..n -> RankedValues] : n \in 0..MaxRankedInsights}
              \cup UNION {[1..n -> LongListValues] :
                             n \in (TopInsights + 1)..(TopInsights + MaxExtraInsights)}
              \cup UNION {[1..n -> ValuableData] : n \in 1..MaxValuableResponses}}

\* The texts the LLM answers with in the model.
RichText == <<"{", "k:reviewer_insights", "{", "}", "k:severity", "s:high", "}">>

BasicText == <<"{", "k:description", "s:text", "}">>

BadSeverityText == <<"{", "k:actionable_guidance", "{", "}", "k:severity", "s:critical", "}">>

BasicBadSeverityText == <<"{", "k:description", "s:text", "k:severity", "s:critical", "}">>

EmptyObjectText == <<"{", "}">>

ProseText == <<"prose">>

LLMTexts ==
    {RichText, BasicText, BadSeverityText, BasicBadSeverityText, EmptyObjectText,
     ProseText}

\* Texts whose JSON value is empty: null, the empty string and a string of
\* one blank.
NullText == <<"null">>

EmptyStringText == <<Quote, Quote>>

BlankStringText == <<Quote, Blank, Quote>>

EmptyResultTexts == {NullText, EmptyStringText, BlankStringText}

\* The texts the LLM answers with in a run: the empty values are explored
\* in the runs over a single comment, and the runs over more than
\* two comments get a usable object, one with an unknown severity and prose.
AnswersFor(comments) ==
    IF Len(comments) = 1 THEN LLMTexts \cup EmptyResultTexts
    ELSE IF Len(comments) = 2 THEN LLMTexts
    ELSE {BasicText, BadSeverityText, ProseText}

\* The largest number of comments of the reviewer maps given to the profile
\* builder alone, and the number of comments beyond three of the longer
\* lists of one reviewer.
MaxProfileComments == 2

MaxProfileExtra == 1

ProfileAuthors == {"alice", "bob"}

\* The contents of those comments: a hit in two categories of the keyword
\* table (maintainability before testing) in capitals, a hit in one
\* category each, and no hit.
ProfileContents ==
    <<<<"T", "e", "s", "t", Blank, "t", "h", "e", Blank, "C", "O", "N", "F", "I", "G">>,
      <<"a", "d", "d", Blank, "a", Blank, "t", "e", "s", "t">>,
      <<"t", "o", "o", Blank, "s", "l", "o", "w">>,
      <<"h", "a", "n", "d", "l", "e", Blank, "i", "t">>,
      <<"w", "h", "y">>>>

ProfileComments(authors, contents) ==
    {[author |-> a, content |-> ProfileContents[k]] : a \in authors, k \in contents}

ProfileCommentLists ==
    UNION {[1..n -> ProfileComments(ProfileAuthors, DOMAIN ProfileContents)] :
             n \in 0..MaxProfileComments}

\* The longer lists of one reviewer, over the contents with a keyword.
ProfileLongLists ==
    UNION {[1..n -> ProfileComments({"alice"}, 1..4)] : n \in 3..(3 + MaxProfileExtra)}

\* The reviewer maps: the comments grouped by author, for the short lists
\* also with a reviewer without a comment.
ProfileInputs ==
    {group_by_reviewer(l, <<>>) : l \in ProfileCommentLists \cup ProfileLongLists}
    \cup {Append(group_by_reviewer(l, <<>>), [key |-> "carol", comments |-> <<>>]) :
             l \in ProfileCommentLists}

\* The message of the exception a failing LLM call raises, by attempt: the
\* failures of one execute_with_retry call have distinct messages.
ErrorMessages ==
    <<"error 1", "error 2", "error 3", "error 4", "error 5", "error 6">>

LLMError(a) == ErrorMessages[a + 1]

(***************************************************************************)
(* State.                                                                  *)
(***************************************************************************)
VARIABLES
    filtered_comments,  \* prepared_data["filtered_comments"]
    pr_creator,         \* statistics["pr_info"]["author"]
    retry_count,        \* ChainExecutor.retry_count
    save_to,            \* the caller gave --save-to
    cli_pc,             \* the stage of cli.analyze
    cat_idx,            \* the position of _analyze_reviewer_insights
    attempt,            \* the loop variable of execute_with_retry
    insights,           \* the list _analyze_reviewer_insights builds
    analysed,           \* history: the outcome of each analysis routine
    events,             \* history: the current execute_with_retry call
    trace,              \* history: every LLM invocation and sleep of the run
    console,            \* what cli.analyze printed
    exit_code,          \* -1 while running
    file_written,       \* the report file was written
    response,           \* the argument of parse_llm_response
    parsed,             \* its return value
    parse_pc,           \* "ready", then "parsed"
    result_insights,    \* AnalysisResult.insights, for its two views
    grouped,            \* get_reviewer_responses_by_commit_group()
    commit_messages,    \* get_suggested_commit_messages()
    view_pc,            \* "ready", then "grouped" or "messages"
    raw_comments,       \* the argument of CommentPreparer.prepare_comments
    exclude_bots,       \* CommentPreparer.exclude_bots
    min_comment_length, \* CommentPreparer.min_comment_length
    filtered,           \* the result of _filter_comments
    grouped_data,       \* [by_reviewer, by_file, by_category]
    prepare_pc,         \* "ready", "filtered", then "grouped"
    report_result,      \* the argument of format_markdown_output
    report_lines,       \* the lines of the report
    format_pc,          \* "ready", then "formatted"
    llm_data,           \* the LLM responses the insights are built from
    knowledge_insights, \* the result of extract_knowledge_insights
    valuable_insights,  \* the result of extract_valuable_insights
    extract_pc,         \* "ready", "knowledge", then "valuable"
    profile_input,      \* the argument of build_reviewer_profiles
    reviewer_profiles,  \* the list of reviewer profiles
    profile_pc          \* "ready", then "built"

run == <<filtered_comments, pr_creator, retry_count, save_to, cli_pc, cat_idx,
         attempt, insights, analysed, events, trace, console, exit_code,
         file_written>>

parser == <<response, parsed, parse_pc>>

views == <<result_insights, grouped, commit_messages, view_pc>>

preparer == <<raw_comments, exclude_bots, min_comment_length, filtered,
              grouped_data, prepare_pc>>

formatter == <<report_result, report_lines, format_pc>>

extractor == <<llm_data, knowledge_insights, valuable_insights, extract_pc>>

profiler == <<profile_input, reviewer_profiles, profile_pc>>

vars == <<run, parser, views, preparer, formatter, extractor, profiler>>

inputs == <<filtered_comments, pr_creator, retry_count, save_to>>

\* prepared_data["grouped_data"] and what analyze_comments derives from it
by_category == categorize_comments(filtered_comments, <<>>)

by_reviewer == group_by_reviewer(filtered_comments, <<>>)

reviewer_comments == separate_reviewer_comments(by_reviewer, pr_creator)

reviewer_categories == categorize_reviewer_comments(by_category, pr_creator)

\* statistics["total_comments"]
total_comments == Len(filtered_comments)

\* The same routines with the overall analysis first.
OverallFirstSteps ==
    <<[label |-> "overall", comments |-> <<>>]>> \o
    [i \in DOMAIN reviewer_categories |->
        [label |-> reviewer_categories[i].key,
         comments |-> reviewer_categories[i].comments]]

\* The routines _analyze_reviewer_insights runs, in its order: one per
\* category in the iteration order of reviewer_categories, then the overall
\* analysis.
AnalysisSteps ==
    [i \in DOMAIN reviewer_categories |->
        [label |-> reviewer_categories[i].key,
         comments |-> reviewer_categories[i].comments]]
    \o <<[label |-> "overall", comments |-> <<>>]>>

\* The parser and the views are not in use.
NoParse == response = <<>> /\ parsed = PyNone /\ parse_pc = "idle"

NoViews ==
    /\ result_insights = <<>>
    /\ grouped = <<>>
    /\ commit_messages = EmptyMap
    /\ view_pc = "idle"

\* The preparer is not in use.
NoGrouping == [by_reviewer |-> <<>>, by_file |-> <<>>, by_category |-> <<>>]

NoPrepare ==
    /\ raw_comments = <<>>
    /\ exclude_bots = TRUE
    /\ min_comment_length = 10
    /\ filtered = <<>>
    /\ grouped_data = NoGrouping
    /\ prepare_pc = "idle"

\* The formatter is not in use.
NoResult ==
    [insights |-> <<>>, reviewer_profiles |-> <<>>, key_knowledge_insights |-> <<>>,
     learning_opportunities |-> <<>>, mentoring_insights |-> <<>>,
     valuable_insights |-> <<>>]

NoFormat ==
    /\ report_result = NoResult
    /\ report_lines = <<>>
    /\ format_pc = "idle"

\* The extractor is not in use.
NoBuckets ==
    [style_forming_comments |-> {}, development_philosophy |-> {},
     professional_habits |-> {}]

NoExtract ==
    /\ llm_data = <<>>
    /\ knowledge_insights = <<>>
    /\ valuable_insights = NoBuckets
    /\ extract_pc = "idle"

\* The profile builder is not in use on its own.
NoProfile ==
    /\ profile_input = <<>>
    /\ reviewer_profiles = <<>>
    /\ profile_pc = "idle"

\* No pull request is analysed.
NoRun ==
    /\ filtered_comments = <<>>
    /\ pr_creator = "creator"
    /\ retry_count = 0
    /\ save_to = FALSE
    /\ cli_pc = "idle"
    /\ cat_idx = 1
    /\ attempt = 0
    /\ insights = <<>>
    /\ analysed = <<>>
    /\ events = <<>>
    /\ trace = <<>>
    /\ console = <<>>
    /\ exit_code = -1
    /\ file_written = FALSE

Start(pc) ==
    /\ NoParse
    /\ NoViews
    /\ NoPrepare
    /\ NoFormat
    /\ NoExtract
    /\ NoProfile
    /\ pr_creator = "creator"
    /\ cli_pc = pc
    /\ cat_idx = 1
    /\ attempt = 0
    /\ insights = <<>>
    /\ analysed = <<>>
    /\ events = <<>>
    /\ trace = <<>>
    /\ console = <<>>
    /\ exit_code = -1
    /\ file_written = FALSE

Init ==
    /\ filtered_comments \in {WithContent(l) : l \in CommentLists}
    /\ retry_count \in -1..MaxRunRetry
    /\ save_to = FALSE
    /\ Start("analyze")

\* One reviewer comment without a keyword hit (the category other, then the
\* overall analysis) under every retry count up to MaxRetry.
InitRetry ==
    /\ filtered_comments = <<[author |-> "alice", content |-> ContentOf[1], kw |-> {}]>>
    /\ retry_count \in -1..MaxRetry
    /\ save_to = FALSE
    /\ Start("analyze")

\* The pull requests of the runs checked for termination: no comment, one
\* reviewer comment, reviewer comments of one category next to a category
\* of the PR creator alone, and reviewer comments of two categories; under
\* every retry count up to MaxTerminationRetry.
TerminationComments ==
    {<<>>,
     <<[author |-> "alice", kw |-> {}]>>,
     <<[author |-> "alice", kw |-> {}],
       [author |-> "creator", kw |-> {"security"}],
       [author |-> "alice", kw |-> {}]>>,
     <<[author |-> "alice", kw |-> {"security"}],
       [author |-> "creator", kw |-> {"security"}],
       [author |-> "alice", kw |-> {}]>>}

InitTermination ==
    /\ filtered_comments \in {WithContent(l) : l \in TerminationComments}
    /\ retry_count \in -1..MaxTerminationRetry
    /\ save_to = FALSE
    /\ Start("analyze")

InitCli ==
    /\ filtered_comments \in
           {WithContent(l) : l \in {c \in CommentLists : Len(c) <= MaxCliComments}}
    /\ retry_count \in 0..MaxCliRetry
    /\ save_to \in BOOLEAN
    /\ Start("config")

(***************************************************************************)
(* ChainExecutor.execute_with_retry (utils/chain_utils.py), one action per *)
(* outcome of chain.invoke.  The chain is prompt | llm | parser: when the  *)
(* LLM answers with a text, chain.invoke returns parse_llm_response(text). *)
(***************************************************************************)
\* A loop that runs its body once before it tests the count.
in_range_or_first(a, n) == a < n \/ a = 0

\* for attempt in range(self.retry_count): the loop body runs for attempt
in_range(a, n) == a < n

\* if attempt < self.retry_count: a sleep after every failed attempt
attempts_remain_always(a, n) == a < n

\* if attempt < self.retry_count - 1
attempts_remain(a, n) == a < n - 1

\* wait_time = 2**(attempt + 1)
wait_time_from_two(a) == 2 ^ (a + 1)

\* wait_time = 2**attempt
wait_time(a) == 2 ^ a

Event(kind, a, secs, msg, val) ==
    [e |-> kind, attempt |-> a, secs |-> secs, msg |-> msg, val |-> val]

\* The events of the execute_with_retry call in progress.
Started == IF attempt = 0 THEN <<>> ELSE events

Traced(kind) == [label |-> AnalysisSteps[cat_idx].label, kind |-> kind]

\* The routine at cat_idx gets the outcome exec of execute_with_retry
\* (returned: a chain.invoke call returned it) and _analyze_reviewer_insights
\* moves on; after the overall analysis analyze_comments returns to
\* cli.analyze.
FinishRoutine(exec, returned) ==
    LET step == AnalysisSteps[cat_idx]
        r == IF step.label = "overall"
             THEN analyze_overall_patterns(total_comments, reviewer_comments, exec)
             ELSE analyze_category_with_chain(step.label, step.comments, exec)
    IN  /\ analysed' = Append(analysed,
              [label |-> step.label, produced |-> r.produced, cause |-> r.cause,
               returned |-> exec.ok /\ returned, result |-> IF exec.ok THEN exec.val ELSE PyNone])
        /\ attempt' = 0
        /\ IF r.propagated
           THEN \* analyze_comments: except Exception -> LLMAnalysisError,
                \* cli.analyze: except Exception -> Exit(1)
                /\ cli_pc' = "exited"
                /\ console' = Append(console, "Error")
                /\ exit_code' = 1
                /\ UNCHANGED <<insights, cat_idx, reviewer_profiles>>
           ELSE /\ insights' = IF r.produced THEN Append(insights, r.insight)
                               ELSE insights
                /\ cat_idx' = cat_idx + 1
                /\ exit_code' = exit_code
                /\ IF cat_idx = Len(AnalysisSteps)
                   THEN \* both values of the first assign step are there
                        /\ reviewer_profiles' = build_reviewer_profiles(reviewer_comments)
                        /\ cli_pc' = "write"
                        /\ console' = Append(console, "LLM analysis completed")
                   ELSE UNCHANGED <<cli_pc, console, reviewer_profiles>>

\* An executor that takes an empty result for a failure: it sleeps and
\* invokes the chain again.
InvokeReturnsUnlessEmpty ==
    /\ cli_pc = "analyze"
    /\ in_range(attempt, retry_count)
    /\ \E text \in AnswersFor(filtered_comments) :
         LET result == parse_llm_response(text)
         IN  IF Truthy(result) /\ ~(result.t = "str" /\ Strip(result.s) = <<>>)
             THEN /\ events' = Started \o
                        <<Event("call", attempt, 0, "", result),
                          Event("return", attempt, 0, "", result)>>
                  /\ trace' = Append(trace, Traced("call"))
                  /\ FinishRoutine(Returned(result), TRUE)
             ELSE /\ events' = Started \o
                        <<Event("call", attempt, 0, "", result),
                          Event("sleep", attempt, wait_time(attempt), "", PyNone)>>
                  /\ trace' = trace \o <<Traced("call"), Traced("sleep")>>
                  /\ attempt' = attempt + 1
                  /\ UNCHANGED <<cli_pc, cat_idx, insights, analysed, console, exit_code,
                                 reviewer_profiles>>
    /\ UNCHANGED <<inputs, file_written, parser, views, preparer, formatter, extractor,
                   profile_input, profile_pc>>

\* chain.invoke returns: execute_with_retry returns the result at once.
InvokeReturns ==
    /\ cli_pc = "analyze"
    /\ in_range(attempt, retry_count)
    /\ \E text \in AnswersFor(filtered_comments) :
         LET result == parse_llm_response(text)
         IN  /\ events' = Started \o
                   <<Event("call", attempt, 0, "", result),
                     Event("return", attempt, 0, "", result)>>
             /\ trace' = Append(trace, Traced("call"))
             /\ FinishRoutine(Returned(result), TRUE)
    /\ UNCHANGED <<inputs, file_written, parser, views, preparer, formatter, extractor,
                   profile_input, profile_pc>>

\* A retry that does not count: the failed attempt is made again.
InvokeRaisesRetryUncounted ==
    /\ cli_pc = "analyze"
    /\ in_range(attempt, retry_count)
    /\ attempts_remain(attempt, retry_count)
    /\ events' = events \o
           <<Event("call_raised", attempt, 0, LLMError(attempt), PyNone),
             Event("sleep", attempt, wait_time(attempt), "", PyNone)>>
    /\ trace' = trace \o <<Traced("call"), Traced("sleep")>>
    /\ UNCHANGED <<inputs, cli_pc, cat_idx, attempt, insights, analysed, console,
                   exit_code, file_written, parser, views, preparer, formatter, extractor, profiler>>

\* chain.invoke raises and attempts remain: sleep, then the next attempt.
InvokeRaisesRetry ==
    /\ cli_pc = "analyze"
    /\ in_range(attempt, retry_count)
    /\ attempts_remain(attempt, retry_count)
    /\ events' = Started \o
           <<Event("call_raised", attempt, 0, LLMError(attempt), PyNone),
             Event("sleep", attempt, wait_time(attempt), "", PyNone)>>
    /\ trace' = trace \o <<Traced("call"), Traced("sleep")>>
    /\ attempt' = attempt + 1
    /\ UNCHANGED <<inputs, cli_pc, cat_idx, insights, analysed, console,
                   exit_code, file_written, parser, views, preparer, formatter, extractor, profiler>>

\* chain.invoke raises on the last attempt: LLMAnalysisError is raised.
InvokeRaisesLast ==
    /\ cli_pc = "analyze"
    /\ in_range(attempt, retry_count)
    /\ ~attempts_remain(attempt, retry_count)
    /\ events' = Started \o
           <<Event("call_raised", attempt, 0, LLMError(attempt), PyNone),
             Event("raise", retry_count, 0, LLMError(attempt), PyNone)>>
    /\ trace' = Append(trace, Traced("call"))
    /\ FinishRoutine(Raised, FALSE)
    /\ UNCHANGED <<inputs, file_written, parser, views, preparer, formatter, extractor,
                   profile_input, profile_pc>>

\* The loop of execute_with_retry ends without a return or a raise: the
\* call returns None.
LoopEnds ==
    /\ cli_pc = "analyze"
    /\ ~in_range(attempt, retry_count)
    /\ events' = Append(Started, Event("return", attempt, 0, "", PyNone))
    /\ trace' = trace
    /\ FinishRoutine(Returned(PyNone), FALSE)
    /\ UNCHANGED <<inputs, file_written, parser, views, preparer, formatter, extractor,
                   profile_input, profile_pc>>

(***************************************************************************)
(* cli.analyze (cli.py) around the analysis: configuration, fetch, and the *)
(* report file (output_formatter.py).                                      *)
(***************************************************************************)
Exit(message, code) ==
    /\ cli_pc' = "exited"
    /\ console' = Append(console, message)
    /\ exit_code' = code

\* get_config() succeeds, or raises ConfigurationError: Exit(1).
LoadConfig ==
    /\ cli_pc = "config"
    /\ \/ cli_pc' = "fetch" /\ UNCHANGED <<console, exit_code>>
       \/ Exit("Configuration Error", 1)
    /\ UNCHANGED <<inputs, cat_idx, attempt, insights, analysed, events, trace,
                   file_written, parser, views, preparer, formatter, extractor, profiler>>

\* fetch_pr_reviews returns the review data (prepared next), or raises.
FetchReviews ==
    /\ cli_pc = "fetch"
    /\ \/ cli_pc' = "analyze" /\ UNCHANGED <<console, exit_code>>
       \/ Exit("Error", 1)
    /\ UNCHANGED <<inputs, cat_idx, attempt, insights, analysed, events, trace,
                   file_written, parser, views, preparer, formatter, extractor, profiler>>

\* OutputFormatter.save_to_file: True when the write worked, False (never
\* an exception) when it failed.
save_to_file(write_ok) == write_ok

\* FormatManager.save_result: raises when save_to_file returned False.
save_result_raises(write_ok) == ~save_to_file(write_ok)

\* Lines 142-154 of cli.analyze: the code reaches the success message.
reaches_success_message(supplied, write_ok) ==
    IF supplied THEN TRUE ELSE ~save_result_raises(write_ok)

\* The report is written, or the write fails.
WriteReport ==
    /\ cli_pc = "write"
    /\ \E write_ok \in BOOLEAN :
         /\ file_written' = write_ok
         /\ IF reaches_success_message(save_to, write_ok)
            THEN Exit("Report saved to", 0)
            ELSE Exit("Error", 1)
    /\ UNCHANGED <<inputs, cat_idx, attempt, insights, analysed, events, trace,
                   parser, views, preparer, formatter, extractor, profiler>>

\* The steps of the analysis alone.
NextAnalysis ==
    \/ LoopEnds
    \/ InvokeRaisesRetry
    \/ InvokeRaisesLast
    \/ InvokeReturns

\* The analysis of every prepared pull request of the model, from the call
\* of analyze_comments to its return.
Spec == Init /\ [][NextAnalysis]_vars

\* execute_with_retry under every retry count, for one comment.
SpecRetry == InitRetry /\ [][NextAnalysis]_vars

\* The position of the analysis: the stage, the routine and the attempt.
position == <<cli_pc, cat_idx, attempt>>

\* What every step of the analysis does to the position: the next attempt,
\* or the next routine (or the end) with the attempt back at 0.
Advance ==
    /\ cli_pc = "analyze"
    /\ cli_pc' \in {"analyze", "write", "exited"}
    /\ cat_idx' \in {cat_idx, cat_idx + 1}
    /\ attempt' \in {0, attempt + 1}

\* The analysis as the interpreter runs it: analyze_comments is sequential
\* code, every chain.invoke call and every time.sleep call comes back, so
\* while the analysis is under way its position moves on.  The steps that
\* move it are those of NextAnalysis, each of which changes the position.
SpecTermination == InitTermination /\ [][NextAnalysis]_vars /\ WF_position(Advance)

\* The whole of cli.analyze, for the pull requests of at most MaxCliComments
\* comments.
Next ==
    \/ LoadConfig
    \/ FetchReviews
    \/ InvokeReturns
    \/ InvokeRaisesRetry
    \/ InvokeRaisesLast
    \/ LoopEnds
    \/ WriteReport

SpecCli == InitCli /\ [][Next]_vars

(***************************************************************************)
(* The parser alone, on every response of ParseInputs.                     *)
(***************************************************************************)
InitParse ==
    /\ NoRun
    /\ NoViews
    /\ NoPrepare
    /\ NoFormat
    /\ NoExtract
    /\ NoProfile
    /\ response \in ParseInputs
    /\ parsed = PyNone
    /\ parse_pc = "ready"

Parse ==
    /\ parse_pc = "ready"
    /\ parsed' = parse_llm_response(response)
    /\ parse_pc' = "parsed"
    /\ UNCHANGED <<response, run, views, preparer, formatter, extractor, profiler>>

SpecParse == InitParse /\ [][Parse]_vars

(***************************************************************************)
(* The two views of AnalysisResult, on every insight list of InsightLists. *)
(***************************************************************************)
InitViews ==
    /\ NoRun
    /\ NoParse
    /\ NoPrepare
    /\ NoFormat
    /\ NoExtract
    /\ NoProfile
    /\ result_insights \in InsightLists
    /\ grouped = <<>>
    /\ commit_messages = EmptyMap
    /\ view_pc = "ready"

GetReviewerResponsesByCommitGroup ==
    /\ view_pc = "ready"
    /\ grouped' = get_reviewer_responses_by_commit_group(result_insights)
    /\ view_pc' = "grouped"
    /\ UNCHANGED <<result_insights, commit_messages, run, parser, preparer, formatter, extractor, profiler>>

GetSuggestedCommitMessages ==
    /\ view_pc = "ready"
    /\ commit_messages' = get_suggested_commit_messages(result_insights)
    /\ view_pc' = "messages"
    /\ UNCHANGED <<result_insights, grouped, run, parser, preparer, formatter, extractor, profiler>>

NextViews ==
    \/ GetReviewerResponsesByCommitGroup
    \/ GetSuggestedCommitMessages

SpecViews == InitViews /\ [][NextViews]_vars

(***************************************************************************)
(* CommentPreparer.prepare_comments (comment_preparer.py) alone: the       *)
(* filter, then the groupings of the filtered comments.                    *)
(***************************************************************************)
InitPrepare ==
    /\ NoRun
    /\ NoParse
    /\ NoViews
    /\ NoFormat
    /\ NoExtract
    /\ NoProfile
    /\ raw_comments \in RawCommentLists
    /\ exclude_bots \in BOOLEAN
    /\ min_comment_length \in MinCommentLengths
    /\ filtered = <<>>
    /\ grouped_data = NoGrouping
    /\ prepare_pc = "ready"

\* filtered_comments = self._filter_comments(review_data.comments)
FilterComments ==
    /\ prepare_pc = "ready"
    /\ filtered' = filter_comments(raw_comments, exclude_bots, min_comment_length)
    /\ prepare_pc' = "filtered"
    /\ UNCHANGED <<raw_comments, exclude_bots, min_comment_length, grouped_data,
                   run, parser, views, formatter, extractor, profiler>>

\* grouped_data = {by_reviewer, by_file, by_category} of the filtered comments
GroupComments ==
    /\ prepare_pc = "filtered"
    /\ grouped_data' =
           [by_reviewer |-> group_by_reviewer(filtered, <<>>),
            by_file |-> group_by_file(filtered, <<>>),
            by_category |-> categorize_comments(filtered, <<>>)]
    /\ prepare_pc' = "grouped"
    /\ UNCHANGED <<raw_comments, exclude_bots, min_comment_length, filtered,
                   run, parser, views, formatter, extractor, profiler>>

NextPrepare ==
    \/ FilterComments
    \/ GroupComments

SpecPrepare == InitPrepare /\ [][NextPrepare]_vars

(***************************************************************************)
(* OutputFormatter.format_markdown_output alone, on every result of        *)
(* ReportResults.                                                          *)
(***************************************************************************)
InitFormat ==
    /\ NoRun
    /\ NoParse
    /\ NoViews
    /\ NoPrepare
    /\ NoExtract
    /\ NoProfile
    /\ report_result \in ReportResults
    /\ report_lines = <<>>
    /\ format_pc = "ready"

FormatMarkdownOutput ==
    /\ format_pc = "ready"
    /\ report_lines' = format_markdown_output(report_result)
    /\ format_pc' = "formatted"
    /\ UNCHANGED <<report_result, run, parser, views, preparer, extractor, profiler>>

SpecFormat == InitFormat /\ [][FormatMarkdownOutput]_vars

(***************************************************************************)
(* InsightExtractor on the insights from_llm_response builds from every    *)
(* list of ExtractorInputs, as the second stage of the pipeline of         *)
(* analyze_comments runs it.                                               *)
(***************************************************************************)
\* x["insights"]: the insights built from the LLM responses
InsightsOf(data) == [k \in DOMAIN data |-> from_llm_response(data[k]).val]

InitExtract ==
    /\ NoRun
    /\ NoParse
    /\ NoViews
    /\ NoPrepare
    /\ NoFormat
    /\ llm_data \in ExtractorInputs
    /\ knowledge_insights = <<>>
    /\ valuable_insights = NoBuckets
    /\ extract_pc = "ready"
    /\ NoProfile

ExtractKnowledgeInsights ==
    /\ extract_pc = "ready"
    /\ knowledge_insights' = extract_knowledge_insights(InsightsOf(llm_data))
    /\ extract_pc' = "knowledge"
    /\ UNCHANGED <<llm_data, valuable_insights, run, parser, views, preparer, formatter, profiler>>

ExtractValuableInsights ==
    /\ extract_pc = "knowledge"
    /\ valuable_insights' \in extract_valuable_insights(InsightsOf(llm_data))
    /\ extract_pc' = "valuable"
    /\ UNCHANGED <<llm_data, knowledge_insights, run, parser, views, preparer, formatter, profiler>>

NextExtract == ExtractKnowledgeInsights \/ ExtractValuableInsights

SpecExtract == InitExtract /\ [][NextExtract]_vars

(***************************************************************************)
(* ProfileBuilder.build_reviewer_profiles on its own, over the reviewer    *)
(* maps ProfileInputs.                                                     *)
(***************************************************************************)
InitProfile ==
    /\ NoRun
    /\ NoParse
    /\ NoViews
    /\ NoPrepare
    /\ NoFormat
    /\ NoExtract
    /\ profile_input \in ProfileInputs
    /\ reviewer_profiles = <<>>
    /\ profile_pc = "ready"

BuildReviewerProfiles ==
    /\ profile_pc = "ready"
    /\ reviewer_profiles' = build_reviewer_profiles(profile_input)
    /\ profile_pc' = "built"
    /\ UNCHANGED <<profile_input, run, parser, views, preparer, formatter, extractor>>

SpecProfile == InitProfile /\ [][BuildReviewerProfiles]_vars

(***************************************************************************)
(* Properties of the analysis run (Spec).                                  *)
(***************************************************************************)
\* The category buckets of the prepared data that hold a comment of a
\* reviewer, in the order of by_category, computed from the comments.
HasReviewerComment(bucket) ==
    \E i \in DOMAIN bucket.comments : bucket.comments[i].author # pr_creator

ReviewerBuckets == SelectSeq(by_category, HasReviewerComment)

\* The routines a run is expected to go through, by label.
ExpectedLabels ==
    [i \in DOMAIN ReviewerBuckets |-> ReviewerBuckets[i].key] \o <<"overall">>

\* The category of the insight of a routine.
CategoryOf(label) == IF label = "overall" THEN "other" ELSE label

IsProduced(a) == a.produced

\* The routines that produced an insight, in the order they ran.
ProducedRoutines == SelectSeq(analysed, IsProduced)

IsFailure(a) == a.cause \in {"llm_error", "build_error"}

\* C1: a failure of one per-category analysis (the LLM call fails after all
\* retries, or an exception is raised while the insight is built) never
\* leaves _analyze_reviewer_insights: the run never aborts, the routines
\* run one after the other through every category with a reviewer comment
\* and the overall analysis, and a failed routine adds no insight.
C1_CategoryFailureIsolated ==
    LET expected == ExpectedLabels
        produced == ProducedRoutines
    IN  /\ cli_pc # "exited"
        /\ Len(analysed) <= Len(expected)
        /\ \A i \in DOMAIN analysed : analysed[i].label = expected[i]
        /\ cli_pc = "analyze" => cat_idx = Len(analysed) + 1
        /\ cli_pc = "write" => Len(analysed) = Len(expected)
        /\ \A i \in DOMAIN analysed : IsFailure(analysed[i]) => ~analysed[i].produced
        /\ Len(insights) = Len(produced)
        /\ \A j \in DOMAIN insights :
             insights[j].category = CategoryOf(produced[j].label)

\* The first category fails in the LLM call, the second while the insight
\* is built, and the overall analysis still produces its insight.
C1_Witness ==
    /\ cli_pc = "write"
    /\ Len(analysed) = 3
    /\ analysed[1].cause = "llm_error"
    /\ analysed[2].cause = "build_error"
    /\ analysed[3].label = "overall"
    /\ analysed[3].produced
    /\ Len(insights) = 1

\* The response of a call carries a severity that is not a member of the
\* closed enumeration.
CarriesUnknownSeverity(a) ==
    /\ a.returned
    /\ a.result.t = "dict"
    /\ "severity" \in DOMAIN a.result.m
    /\ a.result.m["severity"] \notin
           {[t |-> "str", s |-> <<v>>] : v \in {"low", "medium", "high", "HIGH"}}

ReviewerCommentIndexes ==
    {i \in DOMAIN filtered_comments : filtered_comments[i].author # pr_creator}

\* The comments of reviewers in a category: a comment without a keyword hit
\* is in the category other.
ReviewerCommentsIn(category) ==
    {i \in ReviewerCommentIndexes :
        \/ category \in filtered_comments[i].kw
        \/ category = "other" /\ filtered_comments[i].kw = {}}

\* C21: the insight of a category has a frequency equal to the number of
\* comments analysed for that category, and the overall insight a frequency
\* equal to the number of comments of the reviewers given to the overall
\* analysis, on the rich path and on the basic path.
C21_FrequencyIsCommentCount ==
    LET produced == ProducedRoutines
    IN  /\ Len(insights) = Len(produced)
        /\ \A j \in DOMAIN insights :
             insights[j].frequency =
                 [t |-> "int",
                  n |-> IF produced[j].label = "overall"
                        THEN Cardinality(ReviewerCommentIndexes)
                        ELSE Cardinality(ReviewerCommentsIn(produced[j].label))]

\* C5: when the LLM call of a category returns a text that cannot be
\* decoded as JSON (the parser answers with its fallback mapping), no
\* insight is produced for that category.
C5_NoInsightFromUndecodableText ==
    \A i \in DOMAIN analysed :
        (/\ analysed[i].label # "overall"
         /\ analysed[i].returned
         /\ IsFallback(analysed[i].result))
        => ~analysed[i].produced

\* The position of a label in a sequence of labels, 0 when it is not there.
LabelIndex(labels, label) ==
    IF \E i \in DOMAIN labels : labels[i] = label
    THEN CHOOSE i \in DOMAIN labels : labels[i] = label
    ELSE 0

\* C6: the LLM invocations of a run are sequential and ordered: the calls
\* and sleeps of one category all come before those of the next category in
\* the iteration order, a sleep is followed by a call of the same routine,
\* the overall invocation starts after every category has finished, and the
\* insight list has the same order, the overall insight last.
C6_SequentialInOrder ==
    LET expected == ExpectedLabels
        produced == ProducedRoutines
        at == [i \in DOMAIN trace |-> LabelIndex(expected, trace[i].label)]
        from == [j \in DOMAIN produced |-> LabelIndex(expected, produced[j].label)]
    IN  /\ \A i \in DOMAIN trace : at[i] >= 1
        /\ \A i \in DOMAIN trace : i < Len(trace) => at[i] <= at[i + 1]
        /\ \A i \in DOMAIN trace :
             (trace[i].kind = "sleep" /\ i < Len(trace)) =>
                 (trace[i + 1].kind = "call" /\ at[i + 1] = at[i])
        /\ \A i \in DOMAIN trace :
             trace[i].label = "overall" => Len(analysed) >= Len(expected) - 1
        /\ \A i \in DOMAIN trace : at[i] <= Len(analysed) + 1
        /\ Len(insights) = Len(produced)
        /\ \A j \in DOMAIN produced : j < Len(produced) => from[j] < from[j + 1]
        /\ \A j \in DOMAIN insights :
             /\ insights[j].category = CategoryOf(produced[j].label)
             /\ produced[j].label = "overall" => j = Len(insights)

\* Two categories and the overall analysis, the first category after a
\* retry and its sleep, each with an insight.
C6_Witness ==
    /\ cli_pc = "write"
    /\ Len(insights) = 3
    /\ Len(trace) >= 5
    /\ trace[2].kind = "sleep"
    /\ trace[2].label = ReviewerBuckets[1].key
    /\ trace[Len(trace)].label = "overall"

\* The LLM answered with something an insight can be built from: a mapping
\* that is not empty (a decoded object or the fallback mapping) whose
\* severity, when it has one, is a member of Severity.
IsUsable(v) ==
    /\ IsDict(v)
    /\ Truthy(v)
    /\ HasKey(v, "severity") => IsMember(v.m["severity"], Severity)

EveryCallReturned ==
    /\ cli_pc = "write"
    /\ \A i \in DOMAIN analysed : analysed[i].returned

HasComment(bucket) == bucket.comments # <<>>

Invocations == {p \in DOMAIN events : events[p].e \in {"call", "call_raised"}}

FailedInvocations == {p \in DOMAIN events : events[p].e = "call_raised"}

\* C2: with N >= 1 attempts the work is never invoked more than N times;
\* when it raises k < N times and then succeeds, the value of the k+1-st
\* invocation is returned at once, after exactly k+1 invocations; when
\* LLMAnalysisError is raised, the work was invoked exactly N times and
\* every invocation raised.
C2_InvocationCount ==
    retry_count >= 1 =>
        /\ Cardinality(Invocations) <= retry_count
        /\ \A p \in Invocations :
             events[p].attempt = Cardinality({q \in Invocations : q < p})
        /\ \A p \in DOMAIN events :
             events[p].e = "call" =>
                 /\ p < Len(events)
                 /\ events[p + 1].e = "return"
        /\ \A p \in DOMAIN events :
             events[p].e = "return" =>
                 /\ p = Len(events)
                 /\ p > 1
                 /\ events[p - 1].e = "call"
                 /\ events[p].val = events[p - 1].val
                 /\ Cardinality(FailedInvocations) < retry_count
                 /\ Cardinality(Invocations) = Cardinality(FailedInvocations) + 1
                 /\ \A q \in FailedInvocations : q < p - 1
        /\ \A p \in DOMAIN events :
             events[p].e = "raise" =>
                 /\ p = Len(events)
                 /\ Cardinality(Invocations) = retry_count
                 /\ FailedInvocations = Invocations

\* N = 3: the work raises twice, then its third invocation returns.
C2_Witness ==
    /\ retry_count = 3
    /\ Cardinality(FailedInvocations) = 2
    /\ Cardinality(Invocations) = 3
    /\ events[Len(events)].e = "return"

\* C3: a sleep follows a failed attempt i that is not the last one, lasts
\* 2^i seconds (1 second after attempt 0, twice the previous sleep after
\* each later one) and is followed by the next invocation; nothing sleeps
\* after a return or after the last failed attempt, which is followed by
\* the raise.  N failures give call, sleep, ..., call, raise with N - 1
\* sleeps, and the error carries the message of the last exception and N.
C3_BackoffSchedule ==
    retry_count >= 1 =>
        /\ \A p \in DOMAIN events :
             events[p].e = "sleep" =>
                 /\ p > 1
                 /\ events[p - 1].e = "call_raised"
                 /\ events[p - 1].attempt = events[p].attempt
                 /\ events[p].attempt < retry_count - 1
                 /\ events[p].attempt = 0 => events[p].secs = 1
                 /\ events[p].attempt > 0 => events[p].secs = 2 * events[p - 2].secs
                 /\ p < Len(events) =>
                        /\ events[p + 1].e \in {"call", "call_raised"}
                        /\ events[p + 1].attempt = events[p].attempt + 1
        /\ \A p \in DOMAIN events :
             events[p].e = "call_raised" =>
                 /\ p < Len(events)
                 /\ events[p + 1].e =
                        IF events[p].attempt < retry_count - 1 THEN "sleep" ELSE "raise"
        /\ \A p \in DOMAIN events :
             events[p].e = "return" => p = Len(events)
        /\ \A p \in DOMAIN events :
             events[p].e = "raise" =>
                 /\ p = Len(events)
                 /\ Len(events) = 2 * retry_count
                 /\ Cardinality({q \in DOMAIN events : events[q].e = "sleep"}) = retry_count - 1
                 /\ \A q \in 1..(p - 1) :
                      events[q].e = IF q % 2 = 1 THEN "call_raised" ELSE "sleep"
                 /\ events[p].msg = events[p - 1].msg
                 /\ events[p].attempt = retry_count

\* N = 3 and three failures: call, sleep(1), call, sleep(2), call, raise.
C3_Witness ==
    /\ retry_count = 3
    /\ Len(events) = 6
    /\ events[2].e = "sleep" /\ events[2].secs = 1
    /\ events[4].e = "sleep" /\ events[4].secs = 2
    /\ events[6].e = "raise"

\* An empty result: None, an empty mapping, an empty or whitespace-only
\* string.
IsEmptyResult(v) ==
    \/ v.t = "none"
    \/ v.t = "dict" /\ DOMAIN v.m = {}
    \/ v.t = "str" /\ \A i \in DOMAIN v.s : v.s[i] \in {"SP", "NL"}

\* C20: an invocation of the work that returns an empty result ends
\* execute_with_retry at once: it is the first invocation that did not
\* raise, the result is returned as it is in the same attempt, neither a
\* sleep nor another invocation follows, and the caller gets it as the
\* returned value of the call, not as a failure.
C20_EmptyResultReturnedAtOnce ==
    \A p \in DOMAIN events :
        (events[p].e = "call" /\ IsEmptyResult(events[p].val)) =>
            /\ \A q \in 1..(p - 1) : events[q].e \in {"call_raised", "sleep"}
            /\ Len(events) = p + 1
            /\ events[p + 1].e = "return"
            /\ events[p + 1].attempt = events[p].attempt
            /\ events[p + 1].val = events[p].val
            /\ attempt = 0
            /\ analysed # <<>>
            /\ analysed[Len(analysed)].returned
            /\ analysed[Len(analysed)].result = events[p].val
            /\ analysed[Len(analysed)].cause # "llm_error"

\* The first call returns None on its first invocation and the second call
\* returns a string of one blank after one failed invocation.
C20_Witness ==
    /\ retry_count = 3
    /\ Len(analysed) = 2
    /\ analysed[1].returned /\ analysed[1].result = [t |-> "none"]
    /\ analysed[2].returned /\ analysed[2].result = [t |-> "str", s |-> <<"SP">>]
    /\ Len(events) = 4
    /\ events[1].e = "call_raised"
    /\ events[2].e = "sleep"
    /\ events[3].e = "call"
    /\ events[4].e = "return"

\* C27: with a retry count of zero or less, execute_with_retry invokes
\* nothing, sleeps never, raises no LLMAnalysisError and returns None, and
\* no routine of the run yields an insight; an LLMAnalysisError from
\* exhausted attempts needs a retry count of at least 1.
C27_NoAttemptNoError ==
    /\ retry_count <= 0 =>
          /\ trace = <<>>
          /\ \A p \in DOMAIN events :
                events[p].e = "return" /\ events[p].val = [t |-> "none"]
          /\ \A k \in DOMAIN analysed :
                /\ ~analysed[k].produced
                /\ ~analysed[k].returned
                /\ analysed[k].result = [t |-> "none"]
                /\ analysed[k].cause # "llm_error"
          /\ insights = <<>>
          /\ exit_code # 1
    /\ (\E p \in DOMAIN events : events[p].e = "raise") => retry_count >= 1
    /\ (\E k \in DOMAIN analysed : analysed[k].cause = "llm_error") => retry_count >= 1

\* A run of two categories and the overall analysis under a retry count of
\* zero, at its return to cli.analyze.
C27_Witness ==
    /\ retry_count = 0
    /\ Len(analysed) = 3
    /\ cli_pc = "write"

\* C28: the comments of the PR creator reach neither the per-category
\* analysis nor the profiles: no comment list given to a per-category
\* call holds a comment of the creator, no call is made for a category
\* whose comments are all the creator's, and neither the reviewer map of
\* the overall analysis, the reviewers a basic overall insight names, nor
\* the reviewer profiles have an entry for the creator.
C28_CreatorNeverAnalysed ==
    /\ \A k \in DOMAIN AnalysisSteps :
          \A j \in DOMAIN AnalysisSteps[k].comments :
              AnalysisSteps[k].comments[j].author # pr_creator
    /\ \A p \in DOMAIN trace :
          \/ trace[p].label = "overall"
          \/ \E b \in DOMAIN by_category :
                /\ by_category[b].key = trace[p].label
                /\ HasReviewerComment(by_category[b])
    /\ \A i \in DOMAIN reviewer_comments : reviewer_comments[i].key # pr_creator
    /\ \A k \in DOMAIN analysed :
          (analysed[k].label = "overall" /\ analysed[k].cause = "basic") =>
              \A m \in DOMAIN insights[Len(insights)].reviewers_mentioned.elems :
                  insights[Len(insights)].reviewers_mentioned.elems[m]
                      # PyStr(<<pr_creator>>)
    /\ \A i \in DOMAIN reviewer_profiles :
          reviewer_profiles[i].reviewer_name # pr_creator
    /\ cli_pc = "write" =>
          \A c \in DOMAIN filtered_comments :
              filtered_comments[c].author # pr_creator =>
                  \E i \in DOMAIN reviewer_profiles :
                      reviewer_profiles[i].reviewer_name = filtered_comments[c].author

\* The creator alone commented on security and a reviewer elsewhere: the
\* run returned after calls for the category other and the overall analysis
\* alone, with the profile of the reviewer.
C28_Witness ==
    /\ cli_pc = "write"
    /\ \E c \in DOMAIN filtered_comments :
          filtered_comments[c].author = pr_creator /\ filtered_comments[c].kw = {"security"}
    /\ \A c \in DOMAIN filtered_comments :
          filtered_comments[c].author # pr_creator => filtered_comments[c].kw = {}
    /\ Len(analysed) = 2
    /\ analysed[1].label = "other"
    /\ analysed[2].cause = "basic"
    /\ Len(reviewer_profiles) = 1
    /\ reviewer_profiles[1].reviewer_name = "alice"

\* The LLM invocations of the run made for the routine of a label.
CallsFor(label) ==
    Cardinality({p \in DOMAIN trace :
                   trace[p].label = label /\ trace[p].kind = "call"})

AllCalls == Cardinality({p \in DOMAIN trace : trace[p].kind = "call"})

\* max_attempts: range(retry_count) is empty for a count below 1.
MaxAttempts == IF retry_count > 0 THEN retry_count ELSE 0

\* C30: every run terminates: at most max_attempts invocations are made
\* for each non-empty reviewer category and for the overall analysis, at
\* most (C + 1) * max_attempts in all, none for any other label, and the
\* run reaches the return of analyze_comments with one outcome for each of
\* the C + 1 routines, whatever the invocations do.
C30_Terminates ==
    /\ [](\A p \in DOMAIN trace :
            /\ \E k \in DOMAIN ExpectedLabels : ExpectedLabels[k] = trace[p].label
            /\ CallsFor(trace[p].label) <= MaxAttempts)
    /\ [](AllCalls <= (Len(ReviewerBuckets) + 1) * MaxAttempts)
    /\ <>(/\ cli_pc = "write"
          /\ Len(analysed) = Len(ReviewerBuckets) + 1)

\* Two reviewer categories and the overall analysis, every invocation
\* failed under a retry count of 2: six invocations, and the run returned.
C30_Witness ==
    /\ retry_count = 2
    /\ Len(ReviewerBuckets) = 2
    /\ AllCalls = 6
    /\ cli_pc = "write"

(***************************************************************************)
(* Properties of the parser alone (SpecParse).                             *)
(***************************************************************************)
\* C4: parse_llm_response returns a mapping for every response: never a
\* list, a number, a string, a boolean or null.
C4_AlwaysMapping ==
    parse_pc = "parsed" => IsDict(parsed)

(***************************************************************************)
(* Properties of the views of AnalysisResult (SpecViews).                  *)
(***************************************************************************)
\* The first response with its triple, in insight then response order.
IsFirstOfTriple(all, p) ==
    \A q \in 1..(p - 1) :
        ~(/\ all[q].reviewer = all[p].reviewer
          /\ all[q].original_comment = all[p].original_comment
          /\ all[q].commit_group = all[p].commit_group)

\* The responses kept for the bucket name, in order; Name gives the bucket
\* of a response.
KeptFor(all, name, Name(_)) ==
    LET F[p \in 0..Len(all)] ==
            IF p = 0 THEN <<>>
            ELSE IF IsFirstOfTriple(all, p) /\ Name(all[p]) = name
                 THEN Append(F[p - 1], all[p])
                 ELSE F[p - 1]
    IN  F[Len(all)]

GroupedAs(Name(_)) ==
    LET all == AllResponses(result_insights)
    IN  view_pc = "grouped" =>
            /\ \A b \in DOMAIN grouped : grouped[b].responses # <<>>
            /\ \A b \in DOMAIN grouped : \A c \in DOMAIN grouped :
                 grouped[b].key = grouped[c].key => b = c
            /\ \A b \in DOMAIN grouped :
                 grouped[b].responses = KeptFor(all, grouped[b].key, Name)
            /\ \A p \in DOMAIN all :
                 IsFirstOfTriple(all, p) =>
                     \E b \in DOMAIN grouped : grouped[b].key = Name(all[p])
            /\ all = <<>> => grouped = <<>>

\* The bucket of a response whose commit_group is absent is general.
NameWhenAbsent(r) ==
    IF r.commit_group = PyNone THEN <<"general">> ELSE r.commit_group.s

\* The bucket of a response whose commit_group is absent or the empty
\* string is general.
NameWhenAbsentOrEmpty(r) ==
    IF r.commit_group = PyNone \/ r.commit_group = PyStr(<<>>)
    THEN <<"general">>
    ELSE r.commit_group.s

\* C8 as stated: the grouped view keeps, for every distinct triple
\* (reviewer, original_comment, commit_group), exactly the first response
\* in insight then response order, in the bucket named by its commit_group,
\* or general when the commit_group is absent; no bucket is empty.
C8_FirstOfTripleInItsBucket == GroupedAs(NameWhenAbsent)

\* C8, amended: the same, the bucket being general when the commit_group
\* is absent or the empty string.
C8_FirstOfTripleInItsBucketOrGeneral == GroupedAs(NameWhenAbsentOrEmpty)

\* Two insights with one response each, the same triple and different
\* messages: the response of the first insight alone is kept.
C8_Witness ==
    /\ view_pc = "grouped"
    /\ Len(result_insights) = 2
    /\ Len(result_insights[1].reviewer_responses) = 1
    /\ Len(result_insights[2].reviewer_responses) = 1
    /\ response_key(result_insights[1].reviewer_responses[1]) =
           response_key(result_insights[2].reviewer_responses[1])
    /\ result_insights[1].reviewer_responses[1] # result_insights[2].reviewer_responses[1]
    /\ Len(grouped) = 1
    /\ grouped[1].responses = <<result_insights[1].reviewer_responses[1]>>

\* C9: the message of a commit group is the suggested_commit_message of the
\* first response, in insight then response order, that names the group and
\* carries a message; a later message never replaces it, and a response
\* without a commit group contributes nothing (general has no message).
C9_FirstMessageOfGroup ==
    LET all == AllResponses(result_insights)
        Contributes(p) ==
            /\ all[p].commit_group.t = "str" /\ all[p].commit_group.s # <<>>
            /\ all[p].suggested_commit_message.t = "str"
            /\ all[p].suggested_commit_message.s # <<>>
        Of(g) == {p \in DOMAIN all : Contributes(p) /\ all[p].commit_group.s = g}
    IN  view_pc = "messages" =>
            /\ DOMAIN commit_messages =
                   {all[p].commit_group.s : p \in {q \in DOMAIN all : Contributes(q)}}
            /\ \A g \in DOMAIN commit_messages :
                 commit_messages[g] = all[SetMin(Of(g))].suggested_commit_message
            /\ <<"general">> \notin DOMAIN commit_messages

\* Two responses of one group with different messages, and the view holds
\* the first.
C9_Witness ==
    LET all == AllResponses(result_insights)
    IN  /\ view_pc = "messages"
        /\ Len(all) = 2
        /\ all[1].commit_group = PyStr(<<"error-handling">>)
        /\ all[2].commit_group = PyStr(<<"error-handling">>)
        /\ all[1].suggested_commit_message = PyStr(<<"feat: a">>)
        /\ all[2].suggested_commit_message = PyStr(<<"feat: b">>)
        /\ commit_messages[<<"error-handling">>] = PyStr(<<"feat: a">>)

(***************************************************************************)
(* Properties of cli.analyze (SpecCli).                                    *)
(***************************************************************************)
\* The run reached the write of the report and has ended.
EndedAfterWrite ==
    /\ cli_pc = "exited"
    /\ \E i \in DOMAIN console : console[i] = "LLM analysis completed"

\* C10: when the write of the report fails the run ends with the error
\* exit, whether the path is generated or given with save_to, and never
\* with the message Report saved to.
C10_FailedWriteAborts ==
    (EndedAfterWrite /\ ~file_written) =>
        /\ exit_code = 1
        /\ console[Len(console)] # "Report saved to"

\* Every routine of the run ended with the failure of its LLM call after
\* the retries.
EveryCallFailed ==
    /\ analysed # <<>>
    /\ \A i \in DOMAIN analysed : analysed[i].cause = "llm_error"

\* C11: when every per-category LLM call and the overall LLM call fail
\* after their retries, the write step is not reached with the empty
\* insight list and no report file is written.
C11_NoReportWithoutInsights ==
    (EveryCallFailed /\ insights = <<>>) =>
        /\ cli_pc # "write"
        /\ ~file_written

(***************************************************************************)
(* Properties of the preparer (SpecPrepare).                               *)
(***************************************************************************)
\* The length of a text without its leading and trailing whitespace: from
\* the first to the last character that is not whitespace.
TrimmedLength(content) ==
    LET solid == {i \in DOMAIN content : content[i] \notin Whitespace}
    IN  IF solid = {} THEN 0 ELSE SetMax(solid) - SetMin(solid) + 1

\* The tests of the filter on the text of a comment.
PassesContentTests(c) ==
    /\ TrimmedLength(c.content) >= min_comment_length
    /\ ~is_non_substantive(c.content)

PassesFilter(c) ==
    /\ ~exclude_bots \/ ~c.is_bot
    /\ PassesContentTests(c)

\* C12: _filter_comments returns exactly the subsequence of its input, in
\* the same order, of the comments that are not excluded as bots, whose
\* trimmed content has at least min_comment_length characters and is not a
\* non-substantive pattern; the input is left as it was and the empty
\* input gives the empty output.
C12_FilterIsOrderedSubsequence ==
    prepare_pc \in {"filtered", "grouped"} =>
        /\ filtered = SelectSeq(raw_comments, PassesFilter)
        /\ raw_comments \in RawCommentLists
        /\ raw_comments = <<>> => filtered = <<>>

\* Two comments, the first too short once trimmed although its text with
\* the blanks is longer than min_comment_length, the second kept.
C12_Witness ==
    /\ prepare_pc = "filtered"
    /\ Len(raw_comments) = 2
    /\ min_comment_length = 3
    /\ Len(raw_comments[1].content) > 3
    /\ TrimmedLength(raw_comments[1].content) < 3
    /\ filtered = <<raw_comments[2]>>

\* The author ends in [bot] or -bot.
IsBotAuthor(c) ==
    \E suffix \in {"[bot]", "-bot"} :
        c.author # <<>> /\ c.author[Len(c.author)] = suffix

NotBotAuthor(c) == ~IsBotAuthor(c)

HasBotAuthor(comments) == \E i \in DOMAIN comments : IsBotAuthor(comments[i])

\* C13 as stated: for a list with bot authors, exclude_bots = True removes
\* exactly the comments of the bot authors, so that the comments kept and
\* the bot comments together are the whole input, and exclude_bots = False
\* keeps the comments of the bot authors.
C13_BotsAloneRemoved ==
    (prepare_pc \in {"filtered", "grouped"} /\ HasBotAuthor(raw_comments)) =>
        IF exclude_bots
        THEN /\ filtered = SelectSeq(raw_comments, NotBotAuthor)
             /\ Len(filtered) + Len(SelectSeq(raw_comments, IsBotAuthor)) = Len(raw_comments)
        ELSE \A i \in DOMAIN raw_comments :
                 IsBotAuthor(raw_comments[i]) =>
                     \E j \in DOMAIN filtered : filtered[j] = raw_comments[i]

\* C13, amended: among the comments that pass the length test and the
\* non-substantive test, exclude_bots = True removes exactly the comments
\* of the bot authors, so that the comments kept and the bot comments
\* removed together are those comments, and exclude_bots = False keeps
\* them all.
C13_BotsAloneRemovedAmongSubstantive ==
    (prepare_pc \in {"filtered", "grouped"} /\ HasBotAuthor(raw_comments)) =>
        LET substantive == SelectSeq(raw_comments, PassesContentTests)
        IN  IF exclude_bots
            THEN /\ filtered = SelectSeq(substantive, NotBotAuthor)
                 /\ Len(filtered) + Len(SelectSeq(substantive, IsBotAuthor)) = Len(substantive)
            ELSE filtered = substantive

\* A substantive comment of a -bot author before one of a reviewer, with
\* exclude_bots: the comment of the reviewer alone is kept.
C13_Witness ==
    /\ prepare_pc = "filtered"
    /\ exclude_bots
    /\ Len(raw_comments) = 2
    /\ raw_comments[1].author = <<"ci", "-bot">>
    /\ PassesContentTests(raw_comments[1])
    /\ NotBotAuthor(raw_comments[2])
    /\ filtered = <<raw_comments[2]>>

\* The bucket of a comment: its file_path, or general when the file_path
\* is absent or empty.
FileBucketOf(c) ==
    IF c.file_path = PyNone \/ c.file_path = PyStr(<<>>)
    THEN <<"general">>
    ELSE c.file_path.s

\* C14: _group_by_file places every comment in exactly one bucket, the one
\* of its file_path or general when the file_path is absent or empty; each
\* bucket holds its comments in input order, the buckets together hold
\* each comment once, and no bucket is empty.
C14_EveryCommentInOneFileBucket ==
    prepare_pc = "grouped" =>
        LET by_file == grouped_data.by_file
            sizes[b \in 0..Len(by_file)] ==
                IF b = 0 THEN 0 ELSE sizes[b - 1] + Len(by_file[b].comments)
        IN  /\ \A b \in DOMAIN by_file : by_file[b].comments # <<>>
            /\ \A b \in DOMAIN by_file : \A c \in DOMAIN by_file :
                 by_file[b].key = by_file[c].key => b = c
            /\ \A b \in DOMAIN by_file :
                 LET InBucket(x) == FileBucketOf(x) = by_file[b].key
                 IN  by_file[b].comments = SelectSeq(filtered, InBucket)
            /\ \A i \in DOMAIN filtered :
                 \E b \in DOMAIN by_file : by_file[b].key = FileBucketOf(filtered[i])
            /\ sizes[Len(by_file)] = Len(filtered)

\* A comment without a file_path and one with the empty file_path share
\* the bucket general.
C14_Witness ==
    /\ prepare_pc = "grouped"
    /\ Len(filtered) = 2
    /\ filtered[1].file_path = PyNone
    /\ filtered[2].file_path = PyStr(<<>>)
    /\ grouped_data.by_file = <<[key |-> <<"general">>, comments |-> filtered]>>

\* The characters are the same letter, whatever the case of the first.
SameLetter(a, b) ==
    \/ a = b
    \/ \E k \in DOMAIN UpperCase : UpperCase[k] = a /\ LowerCase[k] = b

\* The keyword has a case-insensitive substring hit in the content.
HitsKeyword(content, keyword) ==
    \E i \in 1..(Len(content) - Len(keyword) + 1) :
        \A j \in DOMAIN keyword : SameLetter(content[i + j - 1], keyword[j])

\* The categories whose keyword list has a hit in the content.
MatchingCategories(c) ==
    {cat \in DOMAIN CategoryKeywords :
        \E k \in DOMAIN CategoryKeywords[cat] :
            HitsKeyword(c.content, CategoryKeywords[cat][k])}

\* C15: _categorize_comments puts a comment into the bucket of every
\* category whose keyword list has a case-insensitive substring hit in its
\* content, once in each, and into the bucket other exactly when no
\* category matches.
C15_BucketOfEveryMatchingCategory ==
    prepare_pc = "grouped" =>
        LET by_cat == grouped_data.by_category
            Belongs(x, cat) ==
                IF cat = "other" THEN MatchingCategories(x) = {}
                ELSE cat \in MatchingCategories(x)
        IN  /\ \A b \in DOMAIN by_cat : by_cat[b].comments # <<>>
            /\ \A b \in DOMAIN by_cat : \A c \in DOMAIN by_cat :
                 by_cat[b].key = by_cat[c].key => b = c
            /\ \A b \in DOMAIN by_cat :
                 LET InBucket(x) == Belongs(x, by_cat[b].key)
                 IN  by_cat[b].comments = SelectSeq(filtered, InBucket)
            /\ \A i \in DOMAIN filtered :
                 \A cat \in DOMAIN CategoryKeywords \cup {"other"} :
                     Belongs(filtered[i], cat) =>
                         \E b \in DOMAIN by_cat : by_cat[b].key = cat

\* A comment with hits of two categories, one of them in upper case and
\* one inside a longer word, and a comment without a hit.
C15_Witness ==
    /\ prepare_pc = "grouped"
    /\ Len(filtered) = 2
    /\ MatchingCategories(filtered[1]) = {"security", "testing"}
    /\ MatchingCategories(filtered[2]) = {}
    /\ grouped_data.by_category =
           <<[key |-> "security", comments |-> <<filtered[1]>>],
             [key |-> "testing", comments |-> <<filtered[1]>>],
             [key |-> "other", comments |-> <<filtered[2]>>]>>

\* The texts parse_llm_response may decode, in the order of its attempts:
\* the content of the json fenced block, the lines of the generic fenced
\* block, the substring from the first "{" to the last "}", the whole text.
DecodingCandidates(r) ==
    LET jpos == JsonFencePos(r)
        end_idx == Find(r, Fence, jpos + 2)
        start == Find(r, "{", 1)
        end == RFind(r, "}")
    IN  (IF jpos > 0 /\ end_idx > jpos + 2
         THEN {Strip(SubSeq(r, jpos + 2, end_idx - 1))} ELSE {})
        \cup (IF Positions(r, Fence, 1) # {}
              THEN {Strip(JoinLines(CodeBlockLines(SplitLines(r, <<>>), FALSE, <<>>)))}
              ELSE {})
        \cup (IF start > 0 /\ end > start THEN {SubSeq(r, start, end)} ELSE {})
        \cup {r}

\* C22: parse_llm_response answers with the fallback mapping only when
\* every decoding attempt fails: when one of the candidates decodes to a
\* JSON object, the result is not the fallback.
C22_FallbackOnlyWhenNothingDecodes ==
    (parse_pc = "parsed" /\ response # NoneText /\ IsFallback(parsed)) =>
        \A candidate \in DecodingCandidates(Strip(response)) :
            ~(JsonLoads(candidate).ok /\ JsonLoads(candidate).val.t = "dict")

\* C16: for a well-formed JSON object, parse_llm_response returns the
\* mapping the object denotes for each of its four presentations: in a json
\* fenced block, in a generic fenced block, inside prose, and bare.
C16_FourPresentationsAgree ==
    parse_pc = "parsed" =>
        \A J \in JsonObjects : \A form \in PresentationForms :
            response = Present(form, J.text) => parsed = J.val

\* Some piece of the text is a JSON document.
ContainsJson(text) ==
    \E i \in DOMAIN text : \E j \in i..Len(text) : JsonLoads(SubSeq(text, i, j)).ok

FallbackKeys ==
    {"description", "severity", "knowledge_category", "reviewer_insights",
     "actionable_guidance", "reviewer_responses"}

\* C17: for an input no piece of which is JSON, the empty and the blank
\* input included, parse_llm_response returns a mapping with the keys
\* description, severity, knowledge_category, reviewer_insights,
\* actionable_guidance and reviewer_responses, its severity low; the
\* mapping is fixed by the input, the description being the trimmed input
\* or, for the empty input, the text Empty response from LLM.
C17_FallbackForNonJson ==
    (parse_pc = "parsed" /\ ~ContainsJson(response)) =>
        /\ IsDict(parsed)
        /\ FallbackKeys \subseteq DOMAIN parsed.m
        /\ parsed.m["severity"] = PyStr(<<"low">>)
        /\ parsed.m["description"] =
               PyStr(IF response = NoneText \/ Strip(response) = <<>>
                     THEN <<"Empty response from LLM">>
                     ELSE Prefix(Strip(response), FallbackPreviewLen))

\* A json fenced block that holds prose.
C17_Witness ==
    /\ parse_pc = "parsed"
    /\ response = <<Fence, JsonWord, "prose", Fence>>
    /\ ~ContainsJson(response)
    /\ parsed.m["severity"] = PyStr(<<"low">>)
    /\ parsed.m["description"] = PyStr(response)

(***************************************************************************)
(* Properties of the formatter (SpecFormat).                               *)
(***************************************************************************)
\* The lines that show an item of a section.
ItemKinds == {"numbered", "bullet", "response"}

\* Every list and every bucket the sections are made from is empty.
NothingToShow(result) ==
    /\ result.insights = <<>>
    /\ result.reviewer_profiles = <<>>
    /\ result.key_knowledge_insights = <<>>
    /\ result.mentoring_insights = <<>>
    /\ \A b \in DOMAIN result.learning_opportunities :
         result.learning_opportunities[b].items = <<>>
    /\ \A b \in DOMAIN result.valuable_insights :
         result.valuable_insights[b].items = <<>>

\* C18: a section heading of the report is followed, before the next
\* section heading, by at least one item of the section, and a result with
\* empty insights and reviewer_profiles whose derived lists and buckets are
\* all empty renders the header block alone.
C18_NoEmptySection ==
    format_pc = "formatted" =>
        /\ \A i \in DOMAIN report_lines :
             report_lines[i].kind = "h2" =>
                 \E j \in (i + 1)..Len(report_lines) :
                     /\ report_lines[j].kind \in ItemKinds
                     /\ \A k \in (i + 1)..j : report_lines[k].kind # "h2"
        /\ NothingToShow(report_result) =>
               \A i \in DOMAIN report_lines :
                   report_lines[i].kind \in {"title", "meta", "rule", "blank"}

\* The Copilot instruction of a response is present and longer than ten
\* characters once trimmed.
HasInstruction(r) ==
    /\ r.copilot_instruction.t = "str"
    /\ TrimmedLength(r.copilot_instruction.s) > 10

\* The commit groups of the deduplicated responses with a response to show.
ShownGroups(groups) ==
    {g \in DOMAIN groups :
        \E j \in DOMAIN groups[g].responses : HasInstruction(groups[g].responses[j])}

\* The line is the heading of the commit group of the given name.
IsGroupHeading(line, name) ==
    /\ line.kind = "h3"
    /\ line.text[1] = "commit group"
    /\ line.text[2] = name

\* C23: in the reviewer-response section a response is rendered only if
\* its Copilot instruction is present and longer than ten characters after
\* trimming, and a commit group without such a response among its
\* deduplicated responses is left out whole: neither its heading nor its
\* suggested commit message is in the report.
C23_OnlyMeaningfulRendered ==
    format_pc = "formatted" =>
        LET groups == get_reviewer_responses_by_commit_group(report_result.insights)
            shown == ShownGroups(groups)
        IN  /\ \A i \in DOMAIN report_lines :
                 (report_lines[i].kind = "code" /\ report_lines[i].text # <<"fence">>) =>
                     /\ TrimmedLength(report_lines[i].text) > 10
                     /\ \E g \in shown : \E j \in DOMAIN groups[g].responses :
                          groups[g].responses[j].copilot_instruction.s = report_lines[i].text
            /\ Cardinality({i \in DOMAIN report_lines : report_lines[i].kind = "h4"}) =
                   Cardinality(UNION {{<<g, j>> : j \in {k \in DOMAIN groups[g].responses :
                                                   HasInstruction(groups[g].responses[k])}} :
                                      g \in DOMAIN groups})
            /\ \A g \in DOMAIN groups \ shown :
                 \A i \in DOMAIN report_lines :
                     ~IsGroupHeading(report_lines[i], groups[g].key)
            /\ \A i \in DOMAIN report_lines :
                 report_lines[i].kind = "commit_message" =>
                     /\ i > 2
                     /\ \E g \in shown :
                          IsGroupHeading(report_lines[i - 2], groups[g].key)

\* A report of two commit groups: one is rendered, the other has a
\* suggested commit message and no response to show.
C23_Witness ==
    /\ format_pc = "formatted"
    /\ LET groups == get_reviewer_responses_by_commit_group(report_result.insights)
           messages == get_suggested_commit_messages(report_result.insights)
       IN  /\ ShownGroups(groups) # {}
           /\ \E g \in DOMAIN groups \ ShownGroups(groups) : groups[g].key \in DOMAIN messages
           /\ \E i \in DOMAIN report_lines : report_lines[i].kind = "commit_message"

\* The (reviewer, original_comment, commit_group) triple of a response.
TripleOf(r) == <<r.reviewer, r.original_comment, r.commit_group>>

\* The first insight in list order with a response of the triple of r.
OwnerOf(r, list) ==
    CHOOSE k \in DOMAIN list :
        /\ \E j \in DOMAIN list[k].reviewer_responses :
             TripleOf(list[k].reviewer_responses[j]) = TripleOf(r)
        /\ \A h \in 1..(k - 1) : \A j \in DOMAIN list[h].reviewer_responses :
             TripleOf(list[h].reviewer_responses[j]) # TripleOf(r)

\* The owners of the rendered responses, in the order of the report: group
\* after group, the responses to show of each in their order.
RECURSIVE RenderedOwners(_, _)
RenderedOwners(groups, list) ==
    IF groups = <<>> THEN <<>>
    ELSE LET shown == SelectSeq(Head(groups).responses, HasInstruction)
         IN  [j \in DOMAIN shown |-> OwnerOf(shown[j], list)]
             \o RenderedOwners(Tail(groups), list)

IsCategoryContext(line) == line.kind = "context" /\ line.text[1] = "title of"

IsDescriptionContext(line) == line.kind = "context" /\ line.text[1] = "truncated"

\* C29: the category and the description shown as the context of a
\* rendered response are those of the insight the deduplicated response was
\* taken from: the first insight in list order whose reviewer_responses
\* hold a response of the same (reviewer, original_comment, commit_group)
\* triple.
C29_ContextIsOwningInsight ==
    format_pc = "formatted" =>
        LET result_list == report_result.insights
            owners == RenderedOwners(
                          get_reviewer_responses_by_commit_group(result_list), result_list)
            categories == SelectSeq(report_lines, IsCategoryContext)
            descriptions == SelectSeq(report_lines, IsDescriptionContext)
        IN  /\ Len(categories) = Len(owners)
            /\ Len(descriptions) = Len(owners)
            /\ \A j \in DOMAIN owners :
                 /\ categories[j].text[2] = result_list[owners[j]].category
                 /\ descriptions[j].text[2] = result_list[owners[j]].description

\* Two insights hold different responses of one triple, the first of them
\* is rendered, and the report shows a context for it.
C29_Witness ==
    /\ format_pc = "formatted"
    /\ Len(report_result.insights) = 2
    /\ \E a \in DOMAIN report_result.insights[1].reviewer_responses :
       \E b \in DOMAIN report_result.insights[2].reviewer_responses :
          LET ra == report_result.insights[1].reviewer_responses[a]
              rb == report_result.insights[2].reviewer_responses[b]
          IN  /\ TripleOf(ra) = TripleOf(rb)
              /\ ra # rb
              /\ HasInstruction(ra)
    /\ Len(SelectSeq(report_lines, IsCategoryContext)) = 1

(***************************************************************************)
(* Properties of the extractor (SpecExtract).                              *)
(***************************************************************************)
\* The field of an LLM response, or the default from_llm_response takes.
FieldOr(d, key, default) == IF key \in DOMAIN d.m THEN d.m[key] ELSE default

\* Twice the learning-value score of the insight of the k-th response:
\* 2 x frequency + severity weight + 2 for a description of more than 200
\* characters + 1.5 x the number of reviewers mentioned.
DoubledScore(k) ==
    LET d == llm_data[k]
        severity == FieldOr(d, "severity", [t |-> "str", s |-> <<"medium">>]).s[1]
    IN  4 * FieldOr(d, "frequency", [t |-> "int", n |-> 1]).n
        + (IF severity = "high" THEN 10 ELSE IF severity = "medium" THEN 6 ELSE 2)
        + (IF Len(FieldOr(d, "description", [t |-> "str", s |-> <<>>]).s) > 200
           THEN 4 ELSE 0)
        + 3 * Len(FieldOr(d, "reviewers_mentioned", [t |-> "list", elems |-> <<>>]).elems)

\* The rank of the insight of the k-th response: one more than the number
\* of insights of a higher score, or of the same score and earlier in the
\* list.
RankOf(k) ==
    1 + Cardinality({j \in DOMAIN llm_data :
                        \/ DoubledScore(j) > DoubledScore(k)
                        \/ DoubledScore(j) = DoubledScore(k) /\ j < k})

\* C24: extract_knowledge_insights emits one entry for each of the 10
\* insights of the highest learning-value score, in descending order of
\* score, insights of equal score in their order in the list, and never
\* more than 10 entries.
C24_TopTenInRankOrder ==
    extract_pc \in {"knowledge", "valuable"} =>
        /\ Len(knowledge_insights) <= 10
        /\ Len(knowledge_insights) = (IF Len(llm_data) < 10 THEN Len(llm_data) ELSE 10)
        /\ \A k \in DOMAIN llm_data :
             RankOf(k) <= 10 =>
                 /\ knowledge_insights[RankOf(k)].s[1] = "title of"
                 /\ knowledge_insights[RankOf(k)].s[2] = llm_data[k].m["category"].s[1]

\* A list of 11 insights: an insight that is not the last of the list is
\* left out, and insights of equal score are among the 10 emitted.
C24_Witness ==
    /\ extract_pc = "knowledge"
    /\ Len(llm_data) = 11
    /\ Len(knowledge_insights) = 10
    /\ \E k \in 1..10 : RankOf(k) = 11
    /\ \E j, k \in DOMAIN llm_data :
         j < k /\ DoubledScore(j) = DoubledScore(k) /\ RankOf(k) <= 10

\* The value under key of the mapping under section of an LLM response,
\* or the default.
NestedOr(d, section, key, default) ==
    IF section \in DOMAIN d.m
    THEN IF key \in DOMAIN d.m[section].m THEN d.m[section].m[key] ELSE default
    ELSE default

EmptyList == [t |-> "list", elems |-> <<>>]

\* The entries of the lists under section.key of the LLM responses.
EntriesUnder(section, key) ==
    UNION {{NestedOr(llm_data[k], section, key, EmptyList).elems[i] :
               i \in DOMAIN NestedOr(llm_data[k], section, key, EmptyList).elems} :
           k \in DOMAIN llm_data}

\* The design philosophies of the LLM responses of more than ten characters
\* once trimmed.
PhilosophiesOfResponses ==
    {NestedOr(llm_data[k], "reviewer_insights", "design_philosophy",
              [t |-> "str", s |-> <<>>]) : k \in DOMAIN llm_data}
    \cap {[t |-> "str", s |-> x.s] :
             x \in {y \in {NestedOr(llm_data[k], "reviewer_insights", "design_philosophy",
                                    [t |-> "str", s |-> <<>>]) : k \in DOMAIN llm_data} :
                       TrimmedLength(y.s) > 10}}

\* C25: in the valuable insights of an analysis style_forming_comments
\* holds the actionable_guidance.valuable_comments entries of the LLM
\* responses, development_philosophy the reviewer_insights.design_philosophy
\* texts of more than ten characters once trimmed, professional_habits the
\* reviewer_insights.best_practices entries; the entries made of the
\* technical knowledge are in style_forming_comments only when the three
\* buckets would be empty without them; a bucket has at most 10 entries.
C25_ValuableBuckets ==
    extract_pc = "valuable" =>
        LET comments == EntriesUnder("actionable_guidance", "valuable_comments")
            practices == EntriesUnder("reviewer_insights", "best_practices")
            philosophies == PhilosophiesOfResponses
        IN  /\ Cardinality(comments) <= 10 => comments \subseteq
                                                  valuable_insights.style_forming_comments
            /\ valuable_insights.development_philosophy = philosophies
            /\ valuable_insights.professional_habits \subseteq practices
            /\ Cardinality(valuable_insights.professional_habits) =
                   (IF Cardinality(practices) < 10 THEN Cardinality(practices) ELSE 10)
            /\ (comments # {} \/ practices # {} \/ philosophies # {}) =>
                   valuable_insights.style_forming_comments \subseteq comments
            /\ Cardinality(valuable_insights.style_forming_comments) <= 10

(***************************************************************************)
(* Properties of the profile builder (SpecProfile).                        *)
(***************************************************************************)
\* The first category of the keyword table with a hit in the content, or
\* other.
FirstHitCategory(content) ==
    LET HitAt(k) == \E w \in DOMAIN ProfileKeywordCategories[k].words :
                       HitsKeyword(content, ProfileKeywordCategories[k].words[w])
        hits == {k \in DOMAIN ProfileKeywordCategories : HitAt(k)}
    IN  IF hits = {} THEN "other"
        ELSE ProfileKeywordCategories[CHOOSE k \in hits : \A j \in hits : k <= j].category

\* The count of a category in the focus areas of a profile, 0 without an
\* entry.
FocusCount(profile, category) ==
    LET at == {i \in DOMAIN profile.focus_areas :
                 profile.focus_areas[i].key = category}
    IN  IF at = {} THEN 0 ELSE profile.focus_areas[CHOOSE i \in at : TRUE].count

RECURSIVE SumOfCounts(_)
SumOfCounts(areas) ==
    IF areas = <<>> THEN 0 ELSE Head(areas).count + SumOfCounts(Tail(areas))

ProfileCategories ==
    {ProfileKeywordCategories[k].category : k \in DOMAIN ProfileKeywordCategories}
    \cup {"other"}

\* The reviewers of the map with at least one comment, in its order.
HasComments(bucket) == Len(bucket.comments) >= 1

\* C26: build_reviewer_profiles gives one profile for each reviewer with at
\* least one comment and none else; a profile counts every comment under
\* its first category of the keyword table with a substring hit, else under
\* other, each category once in the focus areas, so the counts sum to
\* total_comments; top_categories has 1 to 3 distinct categories of a
\* positive count, in descending order of the count, none with a smaller
\* count than a category left out.
C26_OneProfilePerReviewer ==
    profile_pc = "built" =>
        LET reviewers == SelectSeq(profile_input, HasComments)
        IN  /\ Len(reviewer_profiles) = Len(reviewers)
            /\ \A i \in DOMAIN reviewers :
                  LET profile == reviewer_profiles[i]
                      comments == reviewers[i].comments
                      top == profile.top_categories
                  IN  /\ profile.reviewer_name = reviewers[i].key
                      /\ profile.total_comments = Len(comments)
                      /\ \A c \in ProfileCategories :
                            FocusCount(profile, c) =
                                Cardinality({k \in DOMAIN comments :
                                    FirstHitCategory(comments[k].content) = c})
                      /\ \A a, b \in DOMAIN profile.focus_areas :
                            a # b => profile.focus_areas[a].key # profile.focus_areas[b].key
                      /\ SumOfCounts(profile.focus_areas) = profile.total_comments
                      /\ Len(top) >= 1 /\ Len(top) <= 3
                      /\ \A a \in DOMAIN top : FocusCount(profile, top[a]) > 0
                      /\ \A a, b \in DOMAIN top :
                            /\ a # b => top[a] # top[b]
                            /\ a < b => FocusCount(profile, top[a]) >= FocusCount(profile, top[b])
                      /\ \A c \in ProfileCategories :
                            (\A a \in DOMAIN top : top[a] # c) =>
                                /\ \A a \in DOMAIN top :
                                      FocusCount(profile, c) <= FocusCount(profile, top[a])
                                /\ FocusCount(profile, c) > 0 => Len(top) = 3

\* One reviewer with four comments of four categories, the first with
\* keywords of two categories and counted under maintainability alone: one
\* profile, whose top categories are three of the four.
C26_Witness ==
    /\ profile_pc = "built"
    /\ Len(profile_input) = 1
    /\ Len(reviewer_profiles) = 1
    /\ profile_input[1].comments[1].content = ProfileContents[1]
    /\ Len(reviewer_profiles[1].focus_areas) = 4
    /\ reviewer_profiles[1].focus_areas[1] = [key |-> "maintainability", count |-> 1]
    /\ reviewer_profiles[1].top_categories =
           <<"maintainability", "testing", "performance">>

=============================================================================
